---- MODULE Spec2Model ----
(***************************************************************************)
(* Job orchestration of the YouTube summarizer backend: the POST, GET and  *)
(* DELETE route handlers, the progress driver (processJob and its two      *)
(* stages), cancelJob, the cache lookup, and the two job-store backends    *)
(* (in-memory and remote KV).  Every await of the handlers is a step at    *)
(* which other requests may run.                                           *)
(* Spec has all interleavings, SpecSeq one request at a time, SpecLive     *)
(* POST and GET under fairness; SpecKey and SpecGemini study                *)
(* generateCacheKey and summarizeTranscript on their own.  SpecHttp puts   *)
(* the routes' configuration and rate-limit checks in front of the         *)
(* handlers; SpecUrl, SpecMsg and SpecTtl study validateYouTubeUrl, the    *)
(* way of a provider's error message to the client, and the expiry of the  *)
(* stored keys; SpecTime the createdAt and updatedAt of a record through   *)
(* its writes, SpecBody the validation of the POST body.                   *)
(***************************************************************************)
EXTENDS Integers, Sequences, FiniteSets, TLC

(* ------------------------------ bounds -------------------------------- *)

\* number of requests that may be in flight at the same time
MaxReqs == 2

\* number of job ids nanoid() mints during a behaviour
MaxJobs == 2

Reqs == 1..MaxReqs
JobIds == 1..MaxJobs

(* --------------------------- strings, hash ----------------------------- *)

\* UTF-16 code units of the strings that take part in the cache key
CharCodes ==
  "https://youtu.be/a" :> <<104, 116, 116, 112, 115, 58, 47, 47, 121, 111, 117, 116, 117, 46, 98, 101, 47, 97>> @@
  "length" :> <<108, 101, 110, 103, 116, 104>> @@
  "format" :> <<102, 111, 114, 109, 97, 116>> @@
  "transcriptMode" :> <<116, 114, 97, 110, 115, 99, 114, 105, 112, 116, 77, 111, 100, 101>> @@
  "short" :> <<115, 104, 111, 114, 116>> @@
  "standard" :> <<115, 116, 97, 110, 100, 97, 114, 100>> @@
  "detailed" :> <<100, 101, 116, 97, 105, 108, 101, 100>> @@
  "bullets" :> <<98, 117, 108, 108, 101, 116, 115>> @@
  "paragraph" :> <<112, 97, 114, 97, 103, 114, 97, 112, 104>> @@
  "native" :> <<110, 97, 116, 105, 118, 101>> @@
  "auto" :> <<97, 117, 116, 111>> @@
  "generate" :> <<103, 101, 110, 101, 114, 97, 116, 101>>

\* a JSON string literal: the text between double quotes (34)
Quoted(s) == <<34>> \o CharCodes[s] \o <<34>>

\* options are an object with insertion-ordered keys, or undefined:
\* [present |-> BOOLEAN, kv |-> sequence of <<key, value>>]
Undefined == [present |-> FALSE, kv |-> <<>>]
Obj(kv) == [present |-> TRUE, kv |-> kv]

RECURSIVE Members(_)
\* "k":"v","k2":"v2" ... in insertion order
Members(kv) ==
  IF kv = <<>> THEN <<>>
  ELSE Quoted(kv[1][1]) \o <<58>> \o Quoted(kv[1][2])
       \o (IF Len(kv) > 1 THEN <<44>> ELSE <<>>) \o Members(Tail(kv))

\* JSON.stringify of an options object: {"k":"v",...}
JSONstringify(o) == <<123>> \o Members(o.kv) \o <<125>>

\* one round of  hash = ((hash << 5) - hash) + char; hash = hash & hash
\* on a 32-bit value kept as <<high 16 bits, low 16 bits>>
HashStep(h, c) ==
  <<(h[1] * 31 + ((h[2] * 31 + c) \div 65536)) % 65536, (h[2] * 31 + c) % 65536>>

\* one round on the value held in the singleton H
Round(H, c) == {HashStep(v, c) : v \in H}

\* eight rounds of the loop, on s[i] .. s[i + 7]
Rounds8(h, s, i) ==
  Round(Round(Round(Round(Round(Round(Round(Round({h},
    s[i]), s[i + 1]), s[i + 2]), s[i + 3]), s[i + 4]), s[i + 5]), s[i + 6]), s[i + 7])

RECURSIVE HashLoop(_, _, _)
\* for (let i = 0; i < combined.length; i++) { ... }  (i counts from 1 here),
\* taken eight rounds at a time while eight characters are left
HashLoop(h, s, i) ==
  IF i > Len(s) THEN h
  ELSE IF i + 7 <= Len(s)
    THEN CHOOSE r \in {HashLoop(v, s, i + 8) : v \in Rounds8(h, s, i)} : TRUE
  ELSE CHOOSE r \in {HashLoop(v, s, i + 1) : v \in Round({h}, s[i])} : TRUE

HashFrom(h, s) == CHOOSE r \in {HashLoop(h, v, 1) : v \in {s}} : TRUE

\* Math.abs of the signed 32-bit value <<hi, lo>>
MathAbs(h) ==
  IF h[1] < 32768 THEN h
  ELSE IF h[2] = 0 THEN <<(65536 - h[1]) % 65536, 0>>
       ELSE <<65535 - h[1], 65536 - h[2]>>

\* `${url}:${options ? JSON.stringify(options) : ''}` hashed; the key is the
\* number behind the "cache:" prefix
generateCacheKey(url, options) ==
  LET optionsStr == IF options.present THEN JSONstringify(options) ELSE <<>>
      combined == CharCodes[url] \o <<58>> \o optionsStr
  IN  MathAbs(HashFrom(<<0, 0>>, combined))

(* ------------------------- request validation -------------------------- *)

Urls == {"https://youtu.be/a"}

\* value of key k in the object o, or d when the key is missing
RECURSIVE Lookup(_, _, _)
Lookup(kv, k, d) ==
  IF kv = <<>> THEN d
  ELSE IF kv[1][1] = k THEN kv[1][2] ELSE Lookup(Tail(kv), k, d)

\* the options schema: optional object; inside it every key has a default
\* and the output carries the keys in the order of the schema
createSummarySchema(o) ==
  IF ~o.present THEN Undefined
  ELSE Obj(<< <<"length", Lookup(o.kv, "length", "standard")>>,
              <<"format", Lookup(o.kv, "format", "bullets")>>,
              <<"transcriptMode", Lookup(o.kv, "transcriptMode", "auto")>> >>)

\* options as clients write them: left out, in part, in full
BodyOptions ==
  { Undefined,
    Obj(<< <<"length", "short">> >>),
    Obj(<< <<"length", "standard">>, <<"format", "bullets">>, <<"transcriptMode", "auto">> >>) }

Bodies == [url : Urls, options : BodyOptions]

\* what a behaviour explores: requests that race on one job (created from a
\* body with all options written out), or requests that come one after the
\* other, on several jobs and with every body
Scopes ==
  { [jobs |-> 1, reqs |-> MaxReqs,
     bodies |-> {b \in Bodies : b.options.present /\ Len(b.options.kv) = 3}],
    [jobs |-> MaxJobs, reqs |-> 1, bodies |-> Bodies] }

\* the keys of all (url, options) that occur, computed once
CacheKeys ==
  {<<url, o, generateCacheKey(url, o)>> :
     url \in Urls,
     o \in BodyOptions \cup {createSummarySchema(b) : b \in BodyOptions} \cup {Obj(<<>>)}}

CacheKey(url, options) == (CHOOSE t \in CacheKeys : t[1] = url /\ t[2] = options)[3]

(* ------------------------------ records -------------------------------- *)

NoError == [code |-> "none", provider |-> "none"]

\* the value getJob gives for a key that is not in the store
NoJob ==
  [id |-> 0, status |-> "absent", stage |-> "none",
   input |-> [url |-> "none", options |-> Undefined],
   supadata |-> [mode |-> "none", jobId |-> "none", transcriptLang |-> "none"],
   result |-> "none", error |-> NoError, transcript |-> "none"]

NoEntry == [result |-> "none", meta |-> [transcriptLang |-> "none"]]

NoResp ==
  [http |-> 0, code |-> "none", jobId |-> "none", status |-> "none", stage |-> "none",
   result |-> "none", error |-> NoError, meta |-> [transcriptLang |-> "none"]]

\* a Partial<Job>: the fields that are set, and their values
NoUpdates == [fields |-> {}, val |-> NoJob]

Terminal == {"completed", "failed", "cancelled"}

\* outputs of the summarizer that pass validation
Summaries == {"s1", "s2"}
\* error codes the transcript client throws from a transcript request
TranscriptErrors == {"TRANSCRIPT_UNAVAILABLE"}
\* error codes the transcript client throws from a poll of a remote job
PollErrors == {"JOB_NOT_FOUND", "NETWORK_ERROR"}
\* error codes the summarizer client throws
SummarizerErrors == {"INVALID_RESPONSE"}
Handles == {"h1"}
Contents == {"t1"}
Langs == {"en"}

VARIABLES
  scope,           \* the element of Scopes this behaviour explores
  backend,         \* "local" (in-memory maps) or "kv" (remote store), fixed at startup
  jobs,            \* the job store: job id -> record, NoJob when the key is absent
  cache,           \* the cache store: key -> entry
  nextId,          \* the next id nanoid() mints
  req,             \* the requests in flight: position and locals of each handler
  origin,          \* history: the body of the POST that created each job
  cancelAccepted,  \* history: jobs for which a DELETE was answered 204
  reported,        \* history: per job, the results that GET answered with 200 completed
  handlePersisted, \* history: jobs whose record was written with a remote handle
  failedBefore,    \* history: per job, the jobs that were failed when it was created
  call             \* a library function under study on its own: its arguments and locals

vars ==
  <<scope, backend, jobs, cache, nextId, req, origin, cancelAccepted, reported, handlePersisted,
    failedBefore, call>>

\* the variables of the request handlers
handlerVars ==
  <<scope, backend, jobs, cache, nextId, req, origin, cancelAccepted, reported, handlePersisted,
    failedBefore>>

\* no library function is under study
NoCall == [fn |-> "none"]

Idle ==
  [op |-> "none", pc |-> "idle", jobId |-> 0, body |-> [url |-> "none", options |-> Undefined],
   job |-> NoJob, upd |-> NoUpdates, ujob |-> NoJob, ret |-> "none", content |-> "none", lang |-> "none", res |-> "none",
   resp |-> NoResp, afterCancel |-> FALSE, seen |-> {}, afterHandle |-> FALSE, calls |-> <<>>]

\* the stores are empty and no request has arrived
StoresInit ==
  /\ backend \in {"local", "kv"}
  /\ jobs = [j \in JobIds |-> NoJob]
  /\ cache = <<>>
  /\ nextId = 1
  /\ req = [r \in Reqs |-> Idle]
  /\ origin = [j \in JobIds |-> [url |-> "none", options |-> Undefined]]
  /\ cancelAccepted = {}
  /\ reported = [j \in JobIds |-> {}]
  /\ handlePersisted = {}
  /\ failedBefore = [j \in JobIds |-> {}]

HandlersInit == scope \in Scopes /\ StoresInit

Init == call = NoCall /\ HandlersInit

\* the handlers at rest while a library function is under study
HandlersAtRest == HandlersInit /\ scope.reqs = 1 /\ backend = "local"

(* ------------------------------ job store ------------------------------ *)

getJob(jobId) == IF jobId \in JobIds THEN jobs[jobId] ELSE NoJob

\* { ...job, ...updates }
Spread(job, updates) ==
  [f \in DOMAIN job |-> IF f \in updates.fields THEN updates.val[f] ELSE job[f]]

\* a store that would write a record under every job id
saveJob_everyKey(job) == jobs' = [j \in JobIds |-> job]

\* jobs.set(job.id, job)  /  redis.set(`job:${job.id}`, JSON.stringify(job))
saveJob(job) == jobs' = [jobs EXCEPT ![job.id] = job]

getFromCache(url, options) ==
  LET key == CacheKey(url, options)
  IN  IF key \in DOMAIN cache THEN cache[key] ELSE NoEntry

saveToCache(url, options, entry) ==
  LET key == CacheKey(url, options)
  IN  cache' = [k \in DOMAIN cache \cup {key} |-> IF k = key THEN entry ELSE cache[k]]

\* history: the jobs whose record has held a remote handle after a write
HandleHistory ==
  handlePersisted' =
    handlePersisted \cup {j \in JobIds : jobs'[j].supadata.jobId # "none"}

(* ------------------------------ responses ------------------------------ *)

ErrorResponse(http, code) == [NoResp EXCEPT !.http = http, !.code = code]

\* the answers of GET for a job that is completed or failed
CompletedResponse(job) ==
  [NoResp EXCEPT !.http = 200, !.jobId = ToString(job.id), !.status = job.status,
                 !.result = job.result,
                 !.meta = [transcriptLang |-> job.supadata.transcriptLang]]

FailedResponse(job) ==
  [NoResp EXCEPT !.http = 500, !.jobId = ToString(job.id), !.status = job.status,
                 !.error = job.error]

\* a GET that would leave the stage out of its 202
ProcessedResponse_noStage(updatedJob) ==
  IF updatedJob.status = "processing"
    THEN [NoResp EXCEPT !.http = 202, !.jobId = ToString(updatedJob.id),
                        !.status = updatedJob.status]
  ELSE IF updatedJob.status = "completed" THEN CompletedResponse(updatedJob)
  ELSE IF updatedJob.status = "failed" THEN FailedResponse(updatedJob)
  ELSE ErrorResponse(500, "UNKNOWN_STATE")

\* GET after processJob has returned updatedJob
ProcessedResponse(updatedJob) ==
  IF updatedJob.status = "processing"
    THEN [NoResp EXCEPT !.http = 202, !.jobId = ToString(updatedJob.id),
                        !.status = updatedJob.status, !.stage = updatedJob.stage]
  ELSE IF updatedJob.status = "completed" THEN CompletedResponse(updatedJob)
  ELSE IF updatedJob.status = "failed" THEN FailedResponse(updatedJob)
  ELSE ErrorResponse(500, "UNKNOWN_STATE")

\* the handler of request r returns resp
Answer(slot, resp) ==
  [Idle EXCEPT !.op = slot.op, !.pc = "done", !.jobId = slot.jobId, !.body = slot.body,
               !.resp = resp, !.afterCancel = slot.afterCancel, !.seen = slot.seen]

\* history: a GET answer 200 completed for job j is on record
Report(j, resp) ==
  IF resp.http = 200 /\ resp.status = "completed"
    THEN reported' = [reported EXCEPT ![j] = @ \cup {resp.result}]
    ELSE UNCHANGED reported

Free(r) == req[r].pc \in {"idle", "done"}

\* a new request is taken by the first handler that is free
Accepts(r) == r <= scope.reqs /\ Free(r) /\ \A q \in 1..(r - 1) : ~Free(q)

(* -------------------------------- POST --------------------------------- *)

\* a cache hit that would be answered without the cached result
CachedResponse_empty(cached) ==
  [NoResp EXCEPT !.http = 200, !.jobId = "cached", !.status = "completed",
                 !.meta = cached.meta]

\* POST answers from the cache: a completed job under the id "cached"
CachedResponse(cached) ==
  [NoResp EXCEPT !.http = 200, !.jobId = "cached", !.status = "completed",
                 !.result = cached.result, !.meta = cached.meta]

\* POST route: validation of the body, then checkCache(url, options)
PostCheckCache(r, body) ==
  /\ Accepts(r)
  /\ LET options == createSummarySchema(body.options)
         cached == getFromCache(body.url, options)
         slot == [Idle EXCEPT !.op = "POST", !.body = body,
                              !.seen = UNION {reported[j] : j \in {i \in JobIds : origin[i] = body}}]
     IN  IF cached # NoEntry
           THEN req' = [req EXCEPT ![r] = Answer(slot, CachedResponse(cached))]
           ELSE /\ nextId + Cardinality({q \in Reqs : req[q].pc = "post_create"}) <= scope.jobs
                /\ req' = [req EXCEPT ![r] = [slot EXCEPT !.pc = "post_create"]]
  /\ UNCHANGED <<call, scope, backend, jobs, cache, nextId, origin, cancelAccepted, reported,
                 handlePersisted, failedBefore>>

\* a new record that would already carry a remote transcript handle
NewJob_withHandle(jobId, url, options) ==
  [id |-> jobId, status |-> "processing", stage |-> "transcript",
   input |-> [url |-> url, options |-> options],
   supadata |-> [mode |-> "auto", jobId |-> "h1", transcriptLang |-> "none"],
   result |-> "none", error |-> NoError, transcript |-> "none"]

\* the record createJob builds for a validated request
NewJob(jobId, url, options) ==
  [id |-> jobId, status |-> "processing", stage |-> "transcript",
   input |-> [url |-> url, options |-> options],
   supadata |-> [mode |-> IF options.present
                            THEN Lookup(options.kv, "transcriptMode", "auto")
                            ELSE "auto",
                 jobId |-> "none", transcriptLang |-> "none"],
   result |-> "none", error |-> NoError, transcript |-> "none"]

\* createJob: mint an id, save the new record; POST answers 202
createJob(r) ==
  /\ req[r].pc = "post_create"
  /\ LET job == NewJob(nextId, req[r].body.url, createSummarySchema(req[r].body.options))
     IN  /\ saveJob(job)
         /\ origin' = [origin EXCEPT ![nextId] = req[r].body]
         /\ req' = [req EXCEPT ![r] =
              Answer(req[r], [NoResp EXCEPT !.http = 202, !.jobId = ToString(job.id),
                                            !.status = job.status, !.stage = job.stage])]
  /\ nextId' = nextId + 1
  /\ failedBefore' = [failedBefore EXCEPT ![nextId] = {j \in JobIds : jobs[j].status = "failed"}]
  /\ UNCHANGED <<call, scope, backend, cache, cancelAccepted, reported>>
  /\ HandleHistory

(* ----------------------------- error codes ----------------------------- *)

mapSupadataError(code) ==
  CASE code = "INVALID_REQUEST" -> "SUPADATA_INVALID_REQUEST"
    [] code = "VIDEO_UNAVAILABLE" -> "VIDEO_UNAVAILABLE"
    [] code = "TRANSCRIPT_UNAVAILABLE" -> "TRANSCRIPT_UNAVAILABLE"
    [] code \in {"NO_JOB_ID", "JOB_NOT_FOUND", "NETWORK_ERROR", "UNKNOWN_ERROR"} ->
         "SUPADATA_UPSTREAM_ERROR"
    [] OTHER -> "SUPADATA_UPSTREAM_ERROR"

mapGeminiError(code) ==
  CASE code = "AUTH" -> "GEMINI_AUTH"
    [] code = "QUOTA" -> "GEMINI_QUOTA"
    [] code = "NETWORK_ERROR" -> "GEMINI_UPSTREAM_ERROR"
    [] code \in {"INVALID_JSON", "INVALID_RESPONSE"} -> "GEMINI_INVALID_RESPONSE"
    [] code = "UNKNOWN_ERROR" -> "GEMINI_UPSTREAM_ERROR"
    [] OTHER -> "GEMINI_UPSTREAM_ERROR"

\* a catch block that would give up the job as cancelled
FailedUpdates_cancelled(code, provider) ==
  [fields |-> {"status", "error"},
   val |-> [NoJob EXCEPT !.status = "cancelled",
                         !.error = [code |-> code, provider |-> provider]]]

\* the write of processJob's catch block
FailedUpdates(code, provider) ==
  [fields |-> {"status", "error"},
   val |-> [NoJob EXCEPT !.status = "failed",
                         !.error = [code |-> code, provider |-> provider]]]

\* processJob's catch block is entered: updateJob(jobId, {status: 'failed', error})
Catch(slot, code, provider) ==
  [slot EXCEPT !.pc = "uj", !.upd = FailedUpdates(code, provider), !.ret = "catch_final"]

(* ------------------------------ updateJob ------------------------------ *)

\* where the caller of updateJob goes on; DELETE answers 204 right away
AfterUpdate(slot) ==
  IF slot.ret = "del_done"
    THEN Answer(slot, [NoResp EXCEPT !.http = 204])
    ELSE [slot EXCEPT !.pc = slot.ret, !.upd = NoUpdates, !.ujob = NoJob, !.ret = "none"]

\* updateJob is called by the handler in the position slot: in memory the
\* read, the merge and the write are one step; with the remote store this
\* step is the read (getJob) and the write comes later
CallUpdateJob(r, slot) ==
  LET job == getJob(slot.jobId)
  IN  IF backend = "local" \/ job.status = "absent"
        THEN /\ IF job.status = "absent" THEN UNCHANGED jobs
                ELSE saveJob(Spread(job, slot.upd))
             /\ req' = [req EXCEPT ![r] = AfterUpdate(slot)]
             /\ IF slot.ret = "del_done"
                  THEN cancelAccepted' = cancelAccepted \cup {slot.jobId}
                  ELSE UNCHANGED cancelAccepted
        ELSE /\ req' = [req EXCEPT ![r] = [slot EXCEPT !.pc = "uj_w", !.ujob = job]]
             /\ UNCHANGED <<jobs, cancelAccepted>>

\* updateJob called after a read of the store (cancelJob, the catch block
\* after the transcript was found missing)
updateJob(r) ==
  /\ req[r].pc = "uj"
  /\ CallUpdateJob(r, req[r])
  /\ UNCHANGED <<call, scope, backend, cache, nextId, origin, reported, failedBefore>>
  /\ HandleHistory

\* updateJob with the remote store: saveJob({...job, ...updates})
updateJobSave(r) ==
  /\ req[r].pc = "uj_w"
  /\ saveJob(Spread(req[r].ujob, req[r].upd))
  /\ req' = [req EXCEPT ![r] = AfterUpdate(req[r])]
  /\ IF req[r].ret = "del_done"
       THEN cancelAccepted' = cancelAccepted \cup {req[r].jobId}
       ELSE UNCHANGED cancelAccepted
  /\ UNCHANGED <<call, scope, backend, cache, nextId, origin, reported, failedBefore>>
  /\ HandleHistory

(* --------------------------------- GET --------------------------------- *)

\* GET route: getJob(jobId) and the answers for a job that needs no processing
GetLoad(r, j) ==
  /\ Accepts(r)
  /\ LET job == getJob(j)
         slot == [Idle EXCEPT !.op = "GET", !.jobId = j,
                              !.afterCancel = (j \in cancelAccepted),
                              !.afterHandle = (j \in handlePersisted)]
         resp == IF job.status = "absent" THEN ErrorResponse(404, "JOB_NOT_FOUND")
                 ELSE IF job.status = "cancelled" THEN ErrorResponse(410, "JOB_CANCELLED")
                 ELSE IF job.status = "completed" THEN CompletedResponse(job)
                 ELSE FailedResponse(job)
     IN  IF job.status = "processing"
           THEN /\ req' = [req EXCEPT ![r] = [slot EXCEPT !.pc = "pj_load"]]
                /\ UNCHANGED reported
           ELSE /\ req' = [req EXCEPT ![r] = Answer(slot, resp)]
                /\ Report(j, resp)
  /\ UNCHANGED <<call, scope, backend, jobs, cache, nextId, origin, cancelAccepted,
                 handlePersisted, failedBefore>>

\* processJob: getJob(jobId), the early returns, and the choice of the stage
processJob(r) ==
  /\ req[r].pc = "pj_load"
  /\ LET job == getJob(req[r].jobId)
     IN  IF job.status = "absent"
           THEN /\ req' = [req EXCEPT ![r] = Answer(req[r], ErrorResponse(500, "INTERNAL_ERROR"))]
                /\ UNCHANGED reported
         ELSE IF job.status \in Terminal
           THEN /\ req' = [req EXCEPT ![r] = Answer(req[r], ProcessedResponse(job))]
                /\ Report(req[r].jobId, ProcessedResponse(job))
         ELSE /\ req' = [req EXCEPT ![r] =
                   [req[r] EXCEPT !.job = job,
                                  !.pc = IF job.stage = "transcript" THEN "ts_call"
                                         ELSE "ss_load"]]
              /\ UNCHANGED reported
  /\ UNCHANGED <<call, scope, backend, jobs, cache, nextId, origin, cancelAccepted,
                 handlePersisted, failedBefore>>

\* the updates of processTranscriptStage when the transcript is in hand
ReadyUpdates(job, lang) ==
  [fields |-> {"stage", "supadata"},
   val |-> [NoJob EXCEPT !.stage = "summarize",
                         !.supadata = [job.supadata EXCEPT !.transcriptLang = lang]]]

\* history: handler r has made the provider call fn in this poll and got
\* this kind of answer
Called(r, fn, answer) ==
  [req[r] EXCEPT !.calls = Append(@, [fn |-> fn, answer |-> answer])]

\* processTranscriptStage without a remote handle: getTranscript answers
getTranscript(r) ==
  /\ req[r].pc = "ts_call"
  /\ req[r].job.supadata.jobId = "none"
  /\ \/ \E h \in Handles :
          CallUpdateJob(r,
            [Called(r, "getTranscript", "jobId") EXCEPT !.pc = "uj", !.ret = "pj_final",
               !.upd = [fields |-> {"supadata"},
                        val |-> [NoJob EXCEPT !.supadata =
                                   [req[r].job.supadata EXCEPT !.jobId = h]]]])
     \/ \E c \in Contents, l \in Langs :
          CallUpdateJob(r,
            [Called(r, "getTranscript", "content") EXCEPT
               !.pc = "uj", !.ret = "ts_save", !.content = c, !.lang = l,
               !.upd = ReadyUpdates(req[r].job, l)])
     \/ \E e \in TranscriptErrors :
          CallUpdateJob(r, Catch(Called(r, "getTranscript", "error"),
                                 mapSupadataError(e), "supadata"))
  /\ UNCHANGED <<call, scope, backend, cache, nextId, origin, reported, failedBefore>>
  /\ HandleHistory

\* processTranscriptStage with a remote handle: getTranscriptJob answers
getTranscriptJob(r) ==
  /\ req[r].pc = "ts_call"
  /\ req[r].job.supadata.jobId # "none"
  /\ \/ \E st \in {"queued", "active", "completed without content"} :
          /\ req' = [req EXCEPT ![r] =
                       [Called(r, "getTranscriptJob", st) EXCEPT !.pc = "pj_final"]]
          /\ UNCHANGED <<jobs, cancelAccepted>>
     \/ CallUpdateJob(r, Catch(Called(r, "getTranscriptJob", "failed"),
                               mapSupadataError("JOB_FAILED"), "supadata"))
     \/ \E c \in Contents, l \in Langs :
          CallUpdateJob(r,
            [Called(r, "getTranscriptJob", "content") EXCEPT
               !.pc = "uj", !.ret = "ts_save", !.content = c, !.lang = l,
               !.upd = ReadyUpdates(req[r].job, l)])
     \/ \E e \in PollErrors :
          CallUpdateJob(r, Catch(Called(r, "getTranscriptJob", "error"),
                                 mapSupadataError(e), "supadata"))
  /\ UNCHANGED <<call, scope, backend, cache, nextId, origin, reported, failedBefore>>
  /\ HandleHistory

\* a transcript stage that would write its snapshot back without the new stage
TranscriptSave_keepStage(r) ==
  /\ req[r].pc = "ts_save"
  /\ saveJob([req[r].job EXCEPT !.transcript = req[r].content])
  /\ req' = [req EXCEPT ![r] = [req[r] EXCEPT !.pc = "pj_final", !.content = "none", !.lang = "none"]]
  /\ UNCHANGED <<call, scope, backend, cache, nextId, origin, cancelAccepted, reported, failedBefore>>
  /\ HandleHistory

\* processTranscriptStage: saveJob({...job, stage, supadata, _transcript})
TranscriptSave(r) ==
  /\ req[r].pc = "ts_save"
  /\ saveJob([req[r].job EXCEPT !.stage = "summarize",
                                !.supadata = [req[r].job.supadata EXCEPT
                                                !.transcriptLang = req[r].lang],
                                !.transcript = req[r].content])
  /\ req' = [req EXCEPT ![r] = [req[r] EXCEPT !.pc = "pj_final", !.content = "none", !.lang = "none"]]
  /\ UNCHANGED <<call, scope, backend, cache, nextId, origin, cancelAccepted, reported, failedBefore>>
  /\ HandleHistory

\* processSummarizeStage: getJob(job.id) to read the transcript back
SummarizeLoad(r) ==
  /\ req[r].pc = "ss_load"
  /\ LET jobWithTranscript == getJob(req[r].jobId)
     IN  IF jobWithTranscript.status = "absent" \/ jobWithTranscript.transcript = "none"
           THEN req' = [req EXCEPT ![r] = Catch(req[r], "UNKNOWN_ERROR", "backend")]
           ELSE req' = [req EXCEPT ![r] =
                  [req[r] EXCEPT !.pc = "ss_call", !.content = jobWithTranscript.transcript]]
  /\ UNCHANGED <<call, scope, backend, jobs, cache, nextId, origin, cancelAccepted, reported,
                 handlePersisted, failedBefore>>

\* processSummarizeStage: summarizeTranscript answers
summarizeTranscript(r) ==
  /\ req[r].pc = "ss_call"
  /\ \/ \E summaryResult \in Summaries :
          CallUpdateJob(r,
            [req[r] EXCEPT !.pc = "uj", !.ret = "ss_cache", !.content = "none",
               !.res = summaryResult,
               !.upd = [fields |-> {"status", "result"},
                        val |-> [NoJob EXCEPT !.status = "completed",
                                              !.result = summaryResult]]])
     \/ \E e \in SummarizerErrors :
          CallUpdateJob(r, Catch([req[r] EXCEPT !.content = "none"], mapGeminiError(e), "gemini"))
  /\ UNCHANGED <<call, scope, backend, cache, nextId, origin, reported, failedBefore>>
  /\ HandleHistory

\* processSummarizeStage: saveToCache(job.input.url, job.input.options || {}, entry)
SummarizeCache(r) ==
  /\ req[r].pc = "ss_cache"
  /\ LET job == req[r].job
         options == IF job.input.options.present THEN job.input.options ELSE Obj(<<>>)
     IN  saveToCache(job.input.url, options,
                     [result |-> req[r].res,
                      meta |-> [transcriptLang |-> job.supadata.transcriptLang]])
  /\ req' = [req EXCEPT ![r] = [req[r] EXCEPT !.pc = "ss_save"]]
  /\ UNCHANGED <<call, scope, backend, jobs, nextId, origin, cancelAccepted, reported,
                 handlePersisted, failedBefore>>

\* processSummarizeStage: saveJob({...job, status: 'completed', result})
SummarizeSave(r) ==
  /\ req[r].pc = "ss_save"
  /\ saveJob([req[r].job EXCEPT !.status = "completed", !.result = req[r].res])
  /\ req' = [req EXCEPT ![r] = [req[r] EXCEPT !.pc = "pj_final", !.res = "none"]]
  /\ UNCHANGED <<call, scope, backend, cache, nextId, origin, cancelAccepted, reported, failedBefore>>
  /\ HandleHistory

\* processJob: the last getJob(jobId) of the try block or of the catch block;
\* GET answers by the status of the job it gets
ProcessJobReturn(r) ==
  /\ req[r].pc \in {"pj_final", "catch_final"}
  /\ LET updatedJob == getJob(req[r].jobId)
         resp == IF updatedJob.status = "absent" THEN ErrorResponse(500, "INTERNAL_ERROR")
                 ELSE ProcessedResponse(updatedJob)
     IN  /\ req' = [req EXCEPT ![r] = Answer(req[r], resp)]
         /\ Report(req[r].jobId, resp)
  /\ UNCHANGED <<call, scope, backend, jobs, cache, nextId, origin, cancelAccepted,
                 handlePersisted, failedBefore>>

(* ------------------------------- DELETE -------------------------------- *)

\* cancelJob: getJob(jobId) and the early returns; DELETE answers 404 on false
cancelJob(r, j) ==
  /\ Accepts(r)
  /\ LET job == getJob(j)
         slot == [Idle EXCEPT !.op = "DELETE", !.jobId = j]
     IN  IF job.status = "absent" \/ job.status = "completed" \/ job.status = "cancelled"
           THEN req' = [req EXCEPT ![r] = Answer(slot, ErrorResponse(404, "JOB_NOT_FOUND"))]
           ELSE req' = [req EXCEPT ![r] =
                  [slot EXCEPT !.pc = "uj", !.ret = "del_done",
                     !.upd = [fields |-> {"status"},
                              val |-> [NoJob EXCEPT !.status = "cancelled"]]]]
  /\ UNCHANGED <<call, scope, backend, jobs, cache, nextId, origin, cancelAccepted, reported,
                 handlePersisted, failedBefore>>

(* --------------------------- specification ----------------------------- *)

Next ==
  \/ \E r \in Reqs, body \in scope.bodies : PostCheckCache(r, body)
  \/ \E r \in Reqs : createJob(r)
  \/ \E r \in Reqs, j \in 1..scope.jobs : GetLoad(r, j)
  \/ \E r \in Reqs : processJob(r)
  \/ \E r \in Reqs : getTranscript(r)
  \/ \E r \in Reqs : getTranscriptJob(r)
  \/ \E r \in Reqs : TranscriptSave(r)
  \/ \E r \in Reqs : SummarizeLoad(r)
  \/ \E r \in Reqs : summarizeTranscript(r)
  \/ \E r \in Reqs : SummarizeCache(r)
  \/ \E r \in Reqs : SummarizeSave(r)
  \/ \E r \in Reqs : ProcessJobReturn(r)
  \/ \E r \in Reqs : updateJob(r)
  \/ \E r \in Reqs : updateJobSave(r)
  \/ \E r \in Reqs, j \in 1..scope.jobs : cancelJob(r, j)

Spec == Init /\ [][Next]_vars

\* the behaviours in which every request is answered before the next one starts
InitSeq == Init /\ scope.reqs = 1

SpecSeq == InitSeq /\ [][Next]_vars

(* ------------------------------ properties ----------------------------- *)

Answered(r, op) == req[r].pc = "done" /\ req[r].op = op

\* the step is one of handler r, which is at work on a GET poll
PollStep(r) == req[r].op = "GET" /\ ~Free(r) /\ req'[r] # req[r]

InFlight(r) == req[r].pc \in {"ts_call", "ss_call"}

\* C1: once a job's status is completed, failed or cancelled, no step
\* changes any field of its stored record
C1_TerminalFrozen ==
  [][\A j \in JobIds : jobs[j].status \in Terminal => jobs'[j] = jobs[j]]_vars

\* C2: a GET that starts after a DELETE on the job was answered 204 is
\* answered 410 JOB_CANCELLED
C2_GetAfterDelete410 ==
  \A r \in Reqs :
    Answered(r, "GET") /\ req[r].afterCancel =>
      req[r].resp.http = 410 /\ req[r].resp.code = "JOB_CANCELLED"

\* C3: a step of a GET poll on a job whose stored status is cancelled writes
\* neither the job store nor the cache
C3_CancelDiscardsResult ==
  [][\A r \in Reqs :
       PollStep(r) /\ jobs[req[r].jobId].status = "cancelled" =>
         jobs' = jobs /\ cache' = cache]_vars

\* C4: once the stored stage of a job is summarize it stays summarize
C4_StageForward ==
  [][\A j \in JobIds : jobs[j].stage = "summarize" => jobs'[j].stage = "summarize"]_vars

\* C5: in every stored job record, result is present iff status is
\* completed, and error is present iff status is failed
C5_ResultErrorByStatus ==
  \A j \in JobIds :
    jobs[j].status # "absent" =>
      /\ (jobs[j].result # "none") <=> (jobs[j].status = "completed")
      /\ (jobs[j].error # NoError) <=> (jobs[j].status = "failed")

\* C6: DELETE on an absent or terminal job is answered 404 at once and
\* leaves the store unchanged; a DELETE that is answered later is answered
\* 204 and the job's status is then cancelled
C6_DeleteContract ==
  [][\A r \in Reqs :
       /\ (Free(r) /\ req'[r].op = "DELETE" /\ req'[r] # req[r]
             /\ jobs[req'[r].jobId].status \in Terminal \cup {"absent"}) =>
            /\ req'[r].pc = "done"
            /\ req'[r].resp.http = 404
            /\ jobs' = jobs
       /\ (req[r].op = "DELETE" /\ ~Free(r) /\ req'[r].pc = "done") =>
            /\ req'[r].resp.http = 204
            /\ jobs'[req[r].jobId].status = "cancelled"]_vars

\* C7: a stored status cancelled has a DELETE behind it that was accepted
C7_CancelledOnlyByDelete ==
  \A j \in JobIds : jobs[j].status = "cancelled" => j \in cancelAccepted

\* C7 witness: a job is cancelled while a GET poll on it waits on a provider
C7_Witness ==
  \E j \in JobIds, r \in Reqs :
    jobs[j].status = "cancelled" /\ req[r].jobId = j /\ req[r].op = "GET" /\ InFlight(r)

\* the step is one of the POST that handler r works on or takes up
PostStep(r) == req'[r].op = "POST" /\ req'[r] # req[r]

\* C8: a POST that misses the cache writes nothing but one new job record
\* (processing, transcript, no result, no error, no remote handle), answers
\* 202 with that job's id, status and stage, and calls no provider
C8_PostCreatesJob ==
  [][\A r \in Reqs :
       PostStep(r) /\ (req'[r].pc = "post_create" \/ req'[r].resp.http = 202) =>
         /\ cache' = cache
         /\ \A q \in Reqs : ~InFlight(q)' \/ InFlight(q)
         /\ req'[r].pc = "post_create" => jobs' = jobs
         /\ req'[r].pc = "done" =>
              \E j \in JobIds :
                /\ jobs[j] = NoJob
                /\ \A k \in JobIds \ {j} : jobs'[k] = jobs[k]
                /\ jobs'[j].id = j
                /\ jobs'[j].status = "processing"
                /\ jobs'[j].stage = "transcript"
                /\ jobs'[j].result = "none"
                /\ jobs'[j].error = NoError
                /\ jobs'[j].supadata.jobId = "none"
                /\ jobs'[j].input.url = req[r].body.url
                /\ req'[r].resp.jobId = ToString(j)
                /\ req'[r].resp.status = "processing"
                /\ req'[r].resp.stage = "transcript"]_vars

\* C8 witness: a POST was answered 202 and its job record is in the store
C8_Witness ==
  \E r \in Reqs, j \in JobIds :
    /\ Answered(r, "POST") /\ req[r].resp.http = 202
    /\ req[r].resp.jobId = ToString(j) /\ jobs[j].status = "processing"

\* the cache entry a POST with this body looks up
CachedFor(body) == getFromCache(body.url, createSummarySchema(body.options))

\* C9: a POST whose (url, options) is in the cache is answered 200 with jobId
\* "cached", status completed and the entry's result and meta, and the job
\* store is left as it was
C9_PostCacheHit ==
  [][\A r \in Reqs :
       Free(r) /\ PostStep(r) /\ CachedFor(req'[r].body) # NoEntry =>
         /\ req'[r].pc = "done"
         /\ req'[r].resp.http = 200
         /\ req'[r].resp.jobId = "cached"
         /\ req'[r].resp.status = "completed"
         /\ req'[r].resp.result = CachedFor(req'[r].body).result
         /\ req'[r].resp.meta = CachedFor(req'[r].body).meta
         /\ jobs' = jobs
         /\ nextId' = nextId]_vars

\* C9 witness: a POST was answered from the cache while a job created from
\* the same body is still processing
C9_Witness ==
  \E r \in Reqs, j \in JobIds :
    /\ Answered(r, "POST") /\ req[r].resp.jobId = "cached"
    /\ req[r].resp.result \in Summaries
    /\ origin[j] = req[r].body /\ jobs[j].status = "processing"

\* C10: a POST with the body of a job that GET has reported completed is
\* answered 200 with jobId "cached" and a result that GET reported
C10_RepostIsCached ==
  \A r \in Reqs :
    Answered(r, "POST") /\ req[r].seen # {} =>
      /\ req[r].resp.http = 200
      /\ req[r].resp.jobId = "cached"
      /\ req[r].resp.result \in req[r].seen

\* C12: once every request has been answered, the result of every cache
\* entry is one that a GET answered with status completed
C12_CacheEntryWasReported ==
  (\A r \in Reqs : Free(r)) =>
    \A k \in DOMAIN cache : \E j \in JobIds : cache[k].result \in reported[j]

\* C13: every answer of GET is 404 JOB_NOT_FOUND, 410 JOB_CANCELLED, 200
\* completed with the result, 500 failed with the error, or 202 processing
\* with the stage
C13_GetAnswers ==
  \A r \in Reqs :
    Answered(r, "GET") =>
      LET resp == req[r].resp
      IN  \/ resp.http = 404 /\ resp.code = "JOB_NOT_FOUND"
          \/ resp.http = 410 /\ resp.code = "JOB_CANCELLED"
          \/ resp.http = 200 /\ resp.status = "completed" /\ resp.result # "none"
          \/ resp.http = 500 /\ resp.status = "failed" /\ resp.error # NoError
          \/ resp.http = 202 /\ resp.status = "processing"
               /\ resp.stage \in {"transcript", "summarize"}

\* C14: a GET that reports the transcript provider's "unavailable" signal
\* answers 500 with status failed, error.code TRANSCRIPT_UNAVAILABLE and
\* error.provider "transcript"
C14_TranscriptUnavailable ==
  \A r \in Reqs :
    Answered(r, "GET") /\ req[r].resp.error.code = "TRANSCRIPT_UNAVAILABLE" =>
      /\ req[r].resp.http = 500
      /\ req[r].resp.status = "failed"
      /\ req[r].resp.error.provider = "transcript"

\* the poll of handler r loaded the job in stage transcript and has stored
\* the transcript it obtained (requests come one at a time)
ObtainedTranscript(r) ==
  /\ req[r].op = "GET" /\ req[r].pc = "pj_final"
  /\ req[r].job.stage = "transcript"
  /\ jobs[req[r].jobId].transcript # "none"

\* C15: the poll that obtains the transcript is answered completed or
\* failed, never processing
C15_SummarizeInSamePoll ==
  [][\A r \in Reqs :
       ObtainedTranscript(r) /\ req'[r].pc = "done" =>
         req'[r].resp.status \in {"completed", "failed"}]_vars

\* C16: no record in the job store holds the transcript text
C16_TranscriptNotStored ==
  \A j \in JobIds : jobs[j].transcript = "none"

(* ----------------- polling a job that is never cancelled -------------- *)

\* a step of the handler r that is at work on a POST or a GET: a store
\* access or a provider call of it returns (the updateJob of its own step
\* is cancelJob's, and the catch block's after a transcript went missing)
HandlerStep(r) ==
  \/ createJob(r)
  \/ processJob(r)
  \/ getTranscript(r)
  \/ getTranscriptJob(r)
  \/ TranscriptSave(r)
  \/ SummarizeLoad(r)
  \/ summarizeTranscript(r)
  \/ SummarizeCache(r)
  \/ SummarizeSave(r)
  \/ ProcessJobReturn(r)
  \/ updateJobSave(r)

\* a GET for job j arrives
Poll(j) == \E r \in Reqs : j <= scope.jobs /\ GetLoad(r, j)

\* the remote transcript job is polled and is over (completed with content,
\* or failed), or the poll of it fails
TranscriptJobOver(r) == getTranscriptJob(r) /\ req'[r].pc # "pj_final"

\* POST and GET requests only
NextLive ==
  \/ \E r \in Reqs, body \in scope.bodies : PostCheckCache(r, body)
  \/ \E j \in JobIds : Poll(j)
  \/ \E r \in Reqs : HandlerStep(r)

\* every await of a handler returns, the remote transcript job does not stay
\* queued or active for ever, and the client keeps polling every job
Fairness ==
  /\ \A r \in Reqs : WF_vars(HandlerStep(r))
  /\ \A r \in Reqs : SF_vars(TranscriptJobOver(r))
  /\ \A j \in JobIds : SF_vars(Poll(j))

SpecLive == InitSeq /\ [][NextLive]_vars /\ Fairness

\* C17: a job that is processing and is polled again and again reaches
\* completed or failed, and a GET on it is answered 200 or 500
C17_PolledJobEnds ==
  \A j \in JobIds :
    /\ jobs[j].status = "processing" ~> jobs[j].status \in {"completed", "failed"}
    /\ jobs[j].status = "processing" ~>
         \E r \in Reqs : Answered(r, "GET") /\ req[r].jobId = j /\ req[r].resp.http \in {200, 500}

\* C17 witness: a job whose transcript came from a remote transcript job
\* has been reported completed by GET
C17_Witness ==
  \E j \in JobIds, r \in Reqs :
    /\ jobs[j].status = "completed" /\ jobs[j].supadata.jobId # "none"
    /\ Answered(r, "GET") /\ req[r].jobId = j /\ req[r].resp.http = 200

(* ------------------- generateCacheKey on its own ----------------------- *)

OptionKeys == {"length", "format", "transcriptMode"}

Defaults == [k \in OptionKeys |->
               CASE k = "length" -> "standard" [] k = "format" -> "bullets" [] OTHER -> "auto"]

\* the values an options object is given here, per key
OptionValues == [k \in OptionKeys |->
                   IF k = "length" THEN {"short", "standard"} ELSE {Defaults[k]}]

\* the orders in which an object literal can list some of the keys
KeyOrders ==
  UNION {{s \in [1..n -> OptionKeys] : \A i, j \in 1..n : i # j => s[i] # s[j]} : n \in 1..3}

\* options as a caller of generateCacheKey may pass them: undefined, {}, or
\* an object with some of the keys in some order
OptionObjects ==
  {Undefined, Obj(<<>>)} \cup
  {Obj([i \in 1..Len(s) |-> <<s[i], v[s[i]]>>]) :
     s \in KeyOrders, v \in {w \in [OptionKeys -> UNION {OptionValues[k] : k \in OptionKeys}] :
                               \A k \in OptionKeys : w[k] \in OptionValues[k]}}

\* the option set an options value stands for: every key with its value,
\* the default where the key or the whole object is left out
OptionSet(o) == [k \in OptionKeys |-> IF o.present THEN Lookup(o.kv, k, Defaults[k]) ELSE Defaults[k]]

InitKey ==
  /\ HandlersAtRest
  /\ call \in [fn : {"generateCacheKey"}, pc : {"args"}, url : Urls,
               options : OptionObjects, options2 : OptionObjects,
               key : {<<0, 0>>}, key2 : {<<0, 0>>}]

\* generateCacheKey(url, options) and generateCacheKey(url, options2) return
KeyCall ==
  /\ call.fn = "generateCacheKey" /\ call.pc = "args"
  /\ call' = [call EXCEPT !.pc = "done",
                          !.key = generateCacheKey(call.url, call.options),
                          !.key2 = generateCacheKey(call.url, call.options2)]
  /\ UNCHANGED handlerVars

NextKey == KeyCall

SpecKey == InitKey /\ [][NextKey]_vars

\* C11: two options values that are equal as option sets (keys in any
\* order, left-out keys standing for their defaults) give the same cache key
C11_KeyOfOptionSet ==
  call.fn = "generateCacheKey" /\ call.pc = "done"
    /\ OptionSet(call.options) = OptionSet(call.options2)
    => call.key = call.key2

(* ------------------- summarizeTranscript on its own -------------------- *)

\* config.transcript
maxChars == 120000
chunkMinChars == 12000
chunkMaxChars == 18000

\* config.summaryLength
summaryLength ==
  [short |-> [min |-> 600, max |-> 1200],
   standard |-> [min |-> 1200, max |-> 2200],
   detailed |-> [min |-> 2200, max |-> 4000]]

\* config.keyPoints, config.confidence
keyPointsMin == 5
keyPointsMax == 9
confidenceMin == 0
confidenceMax == 100

\* number of sentences of a transcript
MaxSentences == 8

\* A text is kept as the lengths of its sentences; the sentences end with
\* . ! or ? and are one space apart, so that split(/(?<=[.!?])\s+/) gives
\* them back and trim() changes nothing.
SentenceLens == {5000, 11000, 17000, 40000, 130000}

RECURSIVE Sum(_)
Sum(ls) == IF ls = <<>> THEN 0 ELSE ls[1] + Sum(Tail(ls))

\* text.length of sentences joined by single spaces
TextLength(ls) == IF ls = <<>> THEN 0 ELSE Sum(ls) + Len(ls) - 1

\* transcripts of up to MaxSentences sentences, of two lengths in turn
Transcripts ==
  {[i \in 1..n |-> IF i % 2 = 1 THEN a ELSE b] :
     n \in 1..MaxSentences, a \in SentenceLens, b \in SentenceLens}

RECURSIVE ChunkLoop(_, _, _, _)
\* the loop of chunkTranscript over the sentences from the i-th on, and the
\* push of what is left
ChunkLoop(sentences, i, currentChunk, chunks) ==
  IF i > Len(sentences)
    THEN IF currentChunk # <<>> THEN Append(chunks, currentChunk) ELSE chunks
  ELSE IF TextLength(currentChunk) + sentences[i] > chunkMaxChars
            /\ TextLength(currentChunk) >= chunkMinChars
    THEN ChunkLoop(sentences, i + 1, <<sentences[i]>>, Append(chunks, currentChunk))
  ELSE ChunkLoop(sentences, i + 1, Append(currentChunk, sentences[i]), chunks)

chunkTranscript(transcript) ==
  IF TextLength(transcript) <= maxChars THEN <<transcript>>
  ELSE ChunkLoop(transcript, 1, <<>>, <<>>)

\* what generateText gives: a text that parses to an object with a summary
\* of so many characters, so many key points and a confidence (its whole
\* part and its first decimal, 90 and 5 for 90.5); a text that is no JSON;
\* or an exception of the API
SummaryLens == {1000, 3000}

Generated ==
  [kind : {"json"}, summary : SummaryLens, keyPoints : {keyPointsMin}, confidence : {90},
   tenths : {0}] \cup
  {[kind |-> "json", summary |-> 1000, keyPoints |-> keyPointsMin - 1, confidence |-> 90,
    tenths |-> 0],
   [kind |-> "json", summary |-> 1000, keyPoints |-> keyPointsMin, confidence |-> confidenceMax + 1,
    tenths |-> 0],
   [kind |-> "json", summary |-> 1000, keyPoints |-> keyPointsMin, confidence |-> 90,
    tenths |-> 5],
   [kind |-> "text", summary |-> 0, keyPoints |-> 0, confidence |-> 0, tenths |-> 0],
   [kind |-> "auth", summary |-> 0, keyPoints |-> 0, confidence |-> 0, tenths |-> 0]}

NoSummary == [kind |-> "none", summary |-> 0, keyPoints |-> 0, confidence |-> 0, tenths |-> 0]

\* geminiResponseSchema without the bounds of keyPoints and confidence
validateGeminiResponse_anyNumbers(data) == data.kind = "json"

\* geminiResponseSchema.safeParse(data).success
validateGeminiResponse(data) ==
  /\ data.keyPoints >= keyPointsMin /\ data.keyPoints <= keyPointsMax
  /\ data.tenths = 0
  /\ data.confidence >= confidenceMin /\ data.confidence <= confidenceMax

validateSummaryLengthContent(summary, length) ==
  summary >= summaryLength[length].min /\ summary <= summaryLength[length].max

\* the text handed to one call of the summarizer: a chunk of the transcript,
\* or chunk summaries joined by '\n\n'
ChunkText(chunk) == [sentences |-> chunk, parts |-> <<>>]
Joined(chunkSummaries) == [sentences |-> <<>>, parts |-> chunkSummaries]

InitGemini ==
  /\ HandlersAtRest
  /\ call \in [fn : {"summarizeTranscript"}, pc : {"args"}, transcript : Transcripts,
               length : {"short", "standard", "detailed"}, format : {"bullets", "paragraph"},
               chunks : {<<>>}, chunkSummaries : {<<>>}, calls : {<<>>},
               out : {NoSummary}, error : {"none"}]

\* summarizeTranscript up to its first await: chunkTranscript(transcript)
summarizeTranscriptBegin ==
  /\ call.fn = "summarizeTranscript" /\ call.pc = "args"
  /\ LET chunks == chunkTranscript(call.transcript)
     IN  call' = [call EXCEPT !.chunks = chunks,
                              !.pc = IF Len(chunks) = 1 THEN "single" ELSE "map"]
  /\ UNCHANGED handlerVars

\* the outcome of summarizeChunk for what generateText gave: the error code
\* it throws, "none" when it returns the validated data
Thrown(g) ==
  IF g.kind = "auth" THEN "AUTH"
  ELSE IF g.kind = "text" THEN "INVALID_JSON"
  ELSE IF ~validateGeminiResponse(g) THEN "INVALID_RESPONSE"
  ELSE "none"

\* one call of summarizeChunk returns or throws, and summarizeTranscript
\* goes on to its next await or ends
summarizeChunk ==
  /\ call.fn = "summarizeTranscript" /\ call.pc \in {"single", "map", "reduce"}
  /\ \E g \in Generated :
       LET k == Len(call.chunkSummaries) + 1
           this == CASE call.pc = "single" ->
                          [input |-> ChunkText(call.chunks[1]),
                           length |-> call.length, format |-> call.format]
                     [] call.pc = "map" ->
                          [input |-> ChunkText(call.chunks[k]),
                           length |-> "standard", format |-> "paragraph"]
                     [] OTHER ->
                          [input |-> Joined(call.chunkSummaries),
                           length |-> call.length, format |-> call.format]
           called == [call EXCEPT !.calls = Append(@, this)]
       IN  IF Thrown(g) # "none"
             THEN call' = [called EXCEPT !.pc = "thrown", !.error = Thrown(g)]
           ELSE IF call.pc = "map"
             THEN call' = [called EXCEPT
                             !.chunkSummaries = Append(@, g.summary),
                             !.pc = IF k = Len(call.chunks) THEN "reduce" ELSE "map"]
           ELSE call' = [called EXCEPT !.pc = "returned", !.out = g]
  /\ UNCHANGED handlerVars

NextGemini == summarizeTranscriptBegin \/ summarizeChunk

SpecGemini == InitGemini /\ [][NextGemini]_vars

\* summarizeTranscript has returned a result for a transcript longer than maxChars
LongSummarized ==
  /\ call.fn = "summarizeTranscript" /\ call.pc = "returned"
  /\ TextLength(call.transcript) > maxChars

\* C18: for a transcript longer than maxChars the summarizer was called at
\* least twice with a chunk, in chunk order and with standard/paragraph, then
\* once with the chunk summaries joined and the requested length and format,
\* and the answer to that last call is the result
C18_MapThenReduce ==
  LongSummarized =>
    LET n == Len(call.chunks)
    IN  /\ n >= 2
        /\ Len(call.calls) = n + 1
        /\ \A k \in 1..n :
             k <= Len(call.calls) =>
               call.calls[k] = [input |-> ChunkText(call.chunks[k]),
                                length |-> "standard", format |-> "paragraph"]
        /\ call.calls[Len(call.calls)] =
             [input |-> Joined(call.chunkSummaries),
              length |-> call.length, format |-> call.format]

\* C19: for a transcript longer than maxChars every chunk has at most
\* chunkMaxChars characters and every chunk but the last at least chunkMinChars
C19_ChunkSizes ==
  call.fn = "summarizeTranscript" /\ call.pc # "args"
    /\ TextLength(call.transcript) > maxChars =>
      \A k \in 1..Len(call.chunks) :
        /\ TextLength(call.chunks[k]) <= chunkMaxChars
        /\ k < Len(call.chunks) => TextLength(call.chunks[k]) >= chunkMinChars

\* C20: a summary that summarizeTranscript returns has a length inside the
\* window configured for the requested length
C20_SummaryInWindow ==
  call.fn = "summarizeTranscript" /\ call.pc = "returned" =>
    validateSummaryLengthContent(call.out.summary, call.length)

\* C21: a result that summarizeTranscript returns, which is what processJob
\* stores as the job's result and as the cache entry, has between
\* keyPointsMin and keyPointsMax key points and a whole confidence between
\* confidenceMin and confidenceMax, after one call as after map and reduce
C21_ResultValidated ==
  call.fn = "summarizeTranscript" /\ call.pc = "returned" =>
    /\ call.out.keyPoints \in keyPointsMin..keyPointsMax
    /\ call.out.tenths = 0
    /\ call.out.confidence \in confidenceMin..confidenceMax

\* a result returned after map and reduce
C21_Witness ==
  /\ call.fn = "summarizeTranscript" /\ call.pc = "returned"
  /\ Len(call.chunkSummaries) >= 2
  /\ call.out.keyPoints = keyPointsMin /\ call.out.confidence = 90

(* ----------------- the routes: configuration and rate limit ------------ *)

\* config.rateLimit.postRpm and getRpm when the environment sets neither
postRpm == 10
getRpm == 60

\* the environment the process was started with: which variables are set
Configs ==
  [supadataApiKey : BOOLEAN, geminiApiKey : BOOLEAN, restUrl : BOOLEAN, restToken : BOOLEAN,
   rateLimitEnabled : BOOLEAN]

\* config.kv.useLocal
useLocal(config) == ~config.restUrl \/ ~config.restToken

\* validateConfig that would not ask for the summarizer's key
validateConfig_noGemini(config) ==
  /\ config.supadataApiKey
  /\ ~(~useLocal(config) /\ (~config.restUrl \/ ~config.restToken))

\* validateConfig() returns (TRUE) or throws (FALSE)
validateConfig(config) ==
  /\ config.supadataApiKey
  /\ config.geminiApiKey
  /\ ~(~useLocal(config) /\ (~config.restUrl \/ ~config.restToken))

\* a limiter that would be consulted whenever the feature is switched on
isRateLimitAvailable_enabledOnly(config) == config.rateLimitEnabled

isRateLimitAvailable(config) == ~useLocal(config) /\ config.rateLimitEnabled

\* the headers of a request that getClientIp reads: x-forwarded-for as its
\* comma-separated entries, x-real-ip and cf-connecting-ip ("" when absent)
RequestHeaders ==
  [forwarded : {<<>>, <<"ip1">>, <<"ip2", "ip1">>}, realIp : {"", "ip1"}, cfConnectingIp : {"", "ip2"}]

getClientIp(headers) ==
  IF headers.forwarded # <<>> THEN headers.forwarded[1]
  ELSE IF headers.realIp # "" THEN headers.realIp
  ELSE IF headers.cfConnectingIp # "" THEN headers.cfConnectingIp
  ELSE "unknown"

\* milliseconds from the check to the reset that the limiter reports, and
\* from the check to the building of the response
ResetsIn == {1, 60000}
Elapsed == {0, 1}

NoLimit == [success |-> FALSE, limit |-> 0, remaining |-> 0, reset |-> 0, checked |-> FALSE]

\* what ratelimit.limit(identifier) of the sliding-window limiter resolves to
Limited(rpm) ==
  {[success |-> ok, limit |-> rpm, remaining |-> left, reset |-> at, checked |-> TRUE] :
     ok \in BOOLEAN, left \in {0, rpm - 1}, at \in ResetsIn} \
  {l \in [success : {FALSE}, limit : {rpm}, remaining : {rpm - 1}, reset : ResetsIn,
          checked : {TRUE}] : TRUE}

\* the results checkPostRateLimit(identifier) can resolve to
checkPostRateLimit(config, identifier) ==
  IF ~isRateLimitAvailable(config)
    THEN {[success |-> TRUE, limit |-> postRpm, remaining |-> postRpm, reset |-> 60000,
           checked |-> TRUE]}
    ELSE Limited(postRpm)

checkGetRateLimit(config, identifier) ==
  IF ~isRateLimitAvailable(config)
    THEN {[success |-> TRUE, limit |-> getRpm, remaining |-> getRpm, reset |-> 60000,
           checked |-> TRUE]}
    ELSE Limited(getRpm)

\* Math.ceil(ms / 1000)
CeilSeconds(ms) == IF ms >= 0 THEN (ms + 999) \div 1000 ELSE -((-ms) \div 1000)

NoHeaders == <<>>

\* the three headers that the routes copy from the result of the check
RateLimitHeaders(rateLimitResult) ==
  [h \in {"X-RateLimit-Limit", "X-RateLimit-Remaining", "X-RateLimit-Reset"} |->
     CASE h = "X-RateLimit-Limit" -> rateLimitResult.limit
       [] h = "X-RateLimit-Remaining" -> rateLimitResult.remaining
       [] OTHER -> rateLimitResult.reset]

NoResponse == [http |-> 0, code |-> "none", status |-> "none", headers |-> NoHeaders]

\* rateLimitErrorResponse(limit, reset), built elapsed ms after the check
rateLimitErrorResponse(limit, reset, elapsed) ==
  [http |-> 429, code |-> "RATE_LIMIT_EXCEEDED", status |-> "none",
   headers |->
     [h \in {"X-RateLimit-Limit", "X-RateLimit-Remaining", "X-RateLimit-Reset", "Retry-After"} |->
        CASE h = "X-RateLimit-Limit" -> limit
          [] h = "X-RateLimit-Remaining" -> 0
          [] h = "X-RateLimit-Reset" -> reset
          [] OTHER -> CeilSeconds(reset - elapsed)]]

\* the headers each NextResponse.json of the routes is given
RouteHeaders(method, resp, rateLimitResult) ==
  IF method = "POST"
    THEN IF resp.http = 202 THEN RateLimitHeaders(rateLimitResult) ELSE NoHeaders
  ELSE IF method = "GET"
    THEN IF resp.http \in {200, 202} \/ (resp.http = 500 /\ resp.status = "failed")
           THEN RateLimitHeaders(rateLimitResult)
           ELSE NoHeaders
  ELSE NoHeaders

\* one process with its environment; requests come one after the other to
\* one job
InitHttp ==
  /\ scope = [jobs |-> 1, reqs |-> 1, bodies |-> Bodies]
  /\ StoresInit
  /\ call \in [fn : {"route"}, pc : {"wait"}, config : Configs, method : {"none"},
               clientIp : {"none"}, rateLimitResult : {NoLimit}, response : {NoResponse}]
  /\ backend = IF useLocal(call.config) THEN "local" ELSE "kv"

\* a request arrives at a route
Request ==
  /\ call.fn = "route" /\ call.pc \in {"wait", "answered"}
  /\ \E method \in {"POST", "GET", "DELETE"}, headers \in RequestHeaders :
       call' = [call EXCEPT !.pc = "config", !.method = method,
                            !.clientIp = getClientIp(headers),
                            !.rateLimitResult = NoLimit, !.response = NoResponse]
  /\ UNCHANGED handlerVars

\* the routes' first statement: validateConfig() in its own try
RouteValidateConfig ==
  /\ call.fn = "route" /\ call.pc = "config"
  /\ IF ~validateConfig(call.config)
       THEN /\ call' = [call EXCEPT !.pc = "answered",
                          !.response = [NoResponse EXCEPT !.http = 500,
                                                          !.code = "CONFIGURATION_ERROR"]]
            /\ UNCHANGED handlerVars
     ELSE IF call.method = "DELETE"
       THEN /\ call' = [call EXCEPT !.pc = "handler"]
            /\ req' = [req EXCEPT ![1] = Idle]
            /\ UNCHANGED <<scope, backend, jobs, cache, nextId, origin, cancelAccepted, reported,
                           handlePersisted, failedBefore>>
     ELSE /\ call' = [call EXCEPT !.pc = "limit"]
          /\ UNCHANGED handlerVars

\* POST and GET: the check of the rate limit and the 429
RouteRateLimit ==
  /\ call.fn = "route" /\ call.pc = "limit"
  /\ \E rateLimitResult \in (IF call.method = "POST"
                               THEN checkPostRateLimit(call.config, call.clientIp)
                               ELSE checkGetRateLimit(call.config, call.clientIp)),
        elapsed \in Elapsed :
       IF ~rateLimitResult.success
         THEN /\ call' = [call EXCEPT !.pc = "answered", !.rateLimitResult = rateLimitResult,
                            !.response = rateLimitErrorResponse(rateLimitResult.limit,
                                                                rateLimitResult.reset, elapsed)]
              /\ UNCHANGED handlerVars
         ELSE /\ call' = [call EXCEPT !.pc = "handler", !.rateLimitResult = rateLimitResult]
              /\ req' = [req EXCEPT ![1] = Idle]
              /\ UNCHANGED <<scope, backend, jobs, cache, nextId, origin, cancelAccepted,
                             reported, handlePersisted, failedBefore>>

\* the rest of the route up to the value it returns
RouteHandler ==
  /\ call.fn = "route" /\ call.pc = "handler"
  /\ \/ /\ req[1].pc = "idle"
        /\ \/ call.method = "POST" /\ \E body \in scope.bodies : PostCheckCache(1, body)
           \/ call.method = "GET" /\ \E j \in 1..scope.jobs : GetLoad(1, j)
           \/ call.method = "DELETE" /\ \E j \in 1..scope.jobs : cancelJob(1, j)
     \/ createJob(1)
     \/ processJob(1)
     \/ getTranscript(1)
     \/ getTranscriptJob(1)
     \/ TranscriptSave(1)
     \/ SummarizeLoad(1)
     \/ summarizeTranscript(1)
     \/ SummarizeCache(1)
     \/ SummarizeSave(1)
     \/ ProcessJobReturn(1)
     \/ updateJob(1)
     \/ updateJobSave(1)

\* the route returns its response
RouteRespond ==
  /\ call.fn = "route" /\ call.pc = "handler" /\ req[1].pc = "done"
  /\ call' = [call EXCEPT !.pc = "answered",
                !.response = [http |-> req[1].resp.http, code |-> req[1].resp.code,
                              status |-> req[1].resp.status,
                              headers |-> RouteHeaders(call.method, req[1].resp,
                                                       call.rateLimitResult)]]
  /\ UNCHANGED handlerVars

NextHttp == Request \/ RouteValidateConfig \/ RouteRateLimit \/ RouteHandler \/ RouteRespond

SpecHttp == InitHttp /\ [][NextHttp]_vars

\* C23: with KV_REST_API_URL or KV_REST_API_TOKEN unset, or with rate
\* limiting not enabled, every check that was made is allowed and reports the
\* configured limit as remaining, whoever the client is, and no request is
\* answered 429
C23_LimiterBypassed ==
  call.fn = "route" /\ (useLocal(call.config) \/ ~call.config.rateLimitEnabled) =>
    /\ call.response.http # 429
    /\ call.rateLimitResult.checked =>
         /\ call.rateLimitResult.success
         /\ call.rateLimitResult.limit = (IF call.method = "POST" THEN postRpm ELSE getRpm)
         /\ call.rateLimitResult.remaining = call.rateLimitResult.limit

\* a GET of a client without any address header passed the check with KV
\* credentials set and the feature off
C23_Witness ==
  /\ call.fn = "route" /\ call.pc = "answered" /\ call.method = "GET"
  /\ ~useLocal(call.config) /\ ~call.config.rateLimitEnabled
  /\ call.clientIp = "unknown"
  /\ call.rateLimitResult.checked /\ call.rateLimitResult.remaining = getRpm
  /\ call.response.http = 202

C25_ConfigurationErrorFirst ==
  call.fn = "route" /\ (~call.config.supadataApiKey \/ ~call.config.geminiApiKey) =>
    /\ ~call.rateLimitResult.checked
    /\ req[1] = Idle
    /\ jobs = [j \in JobIds |-> NoJob] /\ cache = <<>> /\ nextId = 1
    /\ call.pc = "answered" =>
         call.response.http = 500 /\ call.response.code = "CONFIGURATION_ERROR"

\* a DELETE answered 500 CONFIGURATION_ERROR where only the summarizer's key
\* is missing
C25_Witness ==
  /\ call.fn = "route" /\ call.pc = "answered" /\ call.method = "DELETE"
  /\ call.config.supadataApiKey /\ ~call.config.geminiApiKey
  /\ call.response.code = "CONFIGURATION_ERROR"

(* -------------------------- validateYouTubeUrl ------------------------- *)

\* the characters of the pieces that the URLs under study are made of
Chars ==
  "https" :> <<"h", "t", "t", "p", "s">> @@
  "http" :> <<"h", "t", "t", "p">> @@
  "youtube.com" :> <<"y", "o", "u", "t", "u", "b", "e", ".", "c", "o", "m">> @@
  "www.youtube.com" :> <<"w", "w", "w", ".", "y", "o", "u", "t", "u", "b", "e", ".", "c", "o", "m">> @@
  "m.youtube.com" :> <<"m", ".", "y", "o", "u", "t", "u", "b", "e", ".", "c", "o", "m">> @@
  "youtu.be" :> <<"y", "o", "u", "t", "u", ".", "b", "e">> @@
  "WWW.YouTube.com" :> <<"W", "W", "W", ".", "Y", "o", "u", "T", "u", "b", "e", ".", "c", "o", "m">> @@
  "www.youtu.be" :> <<"w", "w", "w", ".", "y", "o", "u", "t", "u", ".", "b", "e">> @@
  "music.youtube.com" :> <<"m", "u", "s", "i", "c", ".", "y", "o", "u", "t", "u", "b", "e", ".", "c", "o", "m">> @@
  "example.com" :> <<"e", "x", "a", "m", "p", "l", "e", ".", "c", "o", "m">> @@
  "127.0.0.1" :> <<"1", "2", "7", ".", "0", ".", "0", ".", "1">> @@
  "10.0.0.1" :> <<"1", "0", ".", "0", ".", "0", ".", "1">> @@
  "192.168.1.1" :> <<"1", "9", "2", ".", "1", "6", "8", ".", "1", ".", "1">> @@
  "172.16.0.1" :> <<"1", "7", "2", ".", "1", "6", ".", "0", ".", "1">> @@
  "/watch?v=" :> <<"/", "w", "a", "t", "c", "h", "?", "v", "=">> @@
  "/shorts/" :> <<"/", "s", "h", "o", "r", "t", "s", "/">> @@
  "/embed/" :> <<"/", "e", "m", "b", "e", "d", "/">> @@
  "/" :> <<"/">> @@
  "/playlist?list=" :> <<"/", "p", "l", "a", "y", "l", "i", "s", "t", "?", "l", "i", "s", "t", "=">> @@
  "dQw4w9WgXcQ" :> <<"d", "Q", "w", "4", "w", "9", "W", "g", "X", "c", "Q">> @@
  "not-a-url" :> <<"n", "o", "t", "-", "a", "-", "u", "r", "l">> @@
  "" :> <<>>

\* config.url
allowedHosts == {Chars["youtube.com"], Chars["www.youtube.com"], Chars["m.youtube.com"],
                 Chars["youtu.be"]}
allowedProtocols == {Chars["https"] \o <<":">>}

UpperCase == <<"A", "B", "C", "D", "E", "F", "G", "H", "I", "J", "K", "L", "M",
               "N", "O", "P", "Q", "R", "S", "T", "U", "V", "W", "X", "Y", "Z">>
LowerCase == <<"a", "b", "c", "d", "e", "f", "g", "h", "i", "j", "k", "l", "m",
               "n", "o", "p", "q", "r", "s", "t", "u", "v", "w", "x", "y", "z">>
Digits == {"0", "1", "2", "3", "4", "5", "6", "7", "8", "9"}

\* String.prototype.toLowerCase
toLowerCase(str) ==
  [i \in 1..Len(str) |->
     IF \E k \in 1..26 : UpperCase[k] = str[i]
       THEN LowerCase[CHOOSE k \in 1..26 : UpperCase[k] = str[i]]
       ELSE str[i]]

StartsWith(str, prefix) ==
  Len(str) >= Len(prefix) /\ SubSeq(str, 1, Len(prefix)) = prefix

Drop(str, n) == SubSeq(str, n + 1, Len(str))

\* the first index of a character of set in str, Len(str) + 1 when there is none
RECURSIVE IndexIn(_, _, _)
IndexIn(str, set, i) ==
  IF i > Len(str) \/ str[i] \in set THEN i ELSE IndexIn(str, set, i + 1)

\* new URL(url) for an input with a special scheme: the scheme up to the
\* first ':', "//", the host up to the next '/', '?' or '#', both lowercased;
\* ok is FALSE where the constructor throws
ParseURL(url) ==
  LET colon == IndexIn(url, {":"}, 1)
      rest == Drop(url, colon)
      afterSlashes == Drop(rest, 2)
      hostEnd == IndexIn(afterSlashes, {"/", "?", "#"}, 1)
      host == SubSeq(afterSlashes, 1, hostEnd - 1)
  IN  IF colon > Len(url) \/ colon = 1 \/ ~StartsWith(rest, <<"/", "/">>) \/ host = <<>>
        THEN [ok |-> FALSE, protocol |-> <<>>, hostname |-> <<>>]
        ELSE [ok |-> TRUE, protocol |-> toLowerCase(SubSeq(url, 1, colon)),
              hostname |-> toLowerCase(host)]

\* PRIVATE_IP_REGEX.test(hostname)
PRIVATE_IP_REGEX(hostname) ==
  \/ StartsWith(hostname, <<"1", "2", "7", ".">>)
  \/ StartsWith(hostname, <<"1", "0", ".">>)
  \/ /\ StartsWith(hostname, <<"1", "7", "2", ".">>)
     /\ Len(hostname) >= 7
     /\ \/ hostname[5] = "1" /\ hostname[6] \in {"6", "7", "8", "9"}
        \/ hostname[5] = "2" /\ hostname[6] \in Digits
        \/ hostname[5] = "3" /\ hostname[6] \in {"0", "1"}
     /\ hostname[7] = "."
  \/ StartsWith(hostname, <<"1", "9", "2", ".", "1", "6", "8", ".">>)

\* [a-zA-Z0-9_-]
IdChar(c) ==
  \/ \E k \in 1..26 : c = UpperCase[k] \/ c = LowerCase[k]
  \/ c \in Digits \cup {"_", "-"}

\* YOUTUBE_URL_REGEX.test(url):
\* ^https:\/\/(www\.)?(youtube\.com\/(watch\?v=|shorts\/|embed\/)|youtu\.be\/)[a-zA-Z0-9_-]+
YOUTUBE_URL_REGEX(url) ==
  /\ StartsWith(url, Chars["https"] \o <<":", "/", "/">>)
  /\ \E sub \in {<<>>, <<"w", "w", "w", ".">>} :
       LET rest == Drop(url, 8)
       IN  /\ StartsWith(rest, sub)
           /\ \E shape \in {Chars["youtube.com"] \o Chars["/watch?v="],
                            Chars["youtube.com"] \o Chars["/shorts/"],
                            Chars["youtube.com"] \o Chars["/embed/"],
                            Chars["youtu.be"] \o Chars["/"]} :
                LET tail == Drop(rest, Len(sub))
                IN  /\ StartsWith(tail, shape)
                    /\ Len(tail) > Len(shape)
                    /\ IdChar(tail[Len(shape) + 1])

validateYouTubeUrl(url) ==
  LET parsedUrl == ParseURL(url)
  IN  IF ~parsedUrl.ok THEN FALSE
      ELSE IF parsedUrl.protocol \notin allowedProtocols THEN FALSE
      ELSE IF parsedUrl.hostname \notin allowedHosts THEN FALSE
      ELSE IF PRIVATE_IP_REGEX(parsedUrl.hostname) THEN FALSE
      ELSE IF ~YOUTUBE_URL_REGEX(url) THEN FALSE
      ELSE TRUE

\* the URLs under study: scheme, "://", host, a path up to the video id, the
\* video id; and two texts that are no URL
UrlParts ==
  [scheme : {"https", "http"},
   host : {"youtube.com", "www.youtube.com", "m.youtube.com", "youtu.be", "WWW.YouTube.com",
           "www.youtu.be", "music.youtube.com", "example.com",
           "127.0.0.1", "10.0.0.1", "192.168.1.1", "172.16.0.1"},
   path : {"/watch?v=", "/shorts/", "/embed/", "/", "/playlist?list=", ""},
   id : {"", "dQw4w9WgXcQ"}] \cup
  [scheme : {""}, host : {""}, path : {""}, id : {"", "not-a-url"}]

UrlText(u) ==
  IF u.scheme = "" THEN Chars[u.id]
  ELSE Chars[u.scheme] \o <<":", "/", "/">> \o Chars[u.host] \o Chars[u.path] \o Chars[u.id]

InitUrl ==
  /\ HandlersAtRest
  /\ call \in [fn : {"validateYouTubeUrl"}, pc : {"args"}, url : UrlParts, out : {FALSE}]

\* validateYouTubeUrl(url) returns
UrlCall ==
  /\ call.fn = "validateYouTubeUrl" /\ call.pc = "args"
  /\ call' = [call EXCEPT !.pc = "returned", !.out = validateYouTubeUrl(UrlText(call.url))]
  /\ UNCHANGED handlerVars

NextUrl == UrlCall

SpecUrl == InitUrl /\ [][NextUrl]_vars

\* C26: validateYouTubeUrl returns true exactly for the https URLs whose
\* host, in any letter case, is youtube.com, www.youtube.com, m.youtube.com
\* or youtu.be, whose path is of the watch, shorts, embed or short-link shape
\* and whose video id is not empty; so for each of the four hosts, and for no
\* host that is a private IPv4 address
C26_AcceptsExactly ==
  call.fn = "validateYouTubeUrl" /\ call.pc = "returned" =>
    call.out =
      (/\ call.url.scheme = "https"
       /\ toLowerCase(Chars[call.url.host]) \in allowedHosts
       /\ call.url.path \in {"/watch?v=", "/shorts/", "/embed/", "/"}
       /\ call.url.id # "")

(* ------------------------- error messages ------------------------------ *)

\* the characters of the messages under study
MessageChars ==
  "Unknown error from Supadata" :>
     <<"U", "n", "k", "n", "o", "w", "n", " ", "e", "r", "r", "o", "r", " ", "f", "r", "o", "m", " ", "S", "u", "p", "a", "d", "a", "t", "a">> @@
  "Invalid api_key=sk-123" :>
     <<"I", "n", "v", "a", "l", "i", "d", " ", "a", "p", "i", "_", "k", "e", "y", "=", "s", "k", "-", "1", "2", "3">> @@
  "Request to https://api.supadata.ai/v1/transcript?key=1 failed" :>
     <<"R", "e", "q", "u", "e", "s", "t", " ", "t", "o", " ", "h", "t", "t", "p", "s", ":", "/", "/", "a", "p", "i", ".", "s", "u", "p", "a", "d", "a", "t", "a", ".", "a", "i", "/", "v", "1", "/", "t", "r", "a", "n", "s", "c", "r", "i", "p", "t", "?", "k", "e", "y", "=", "1", " ", "f", "a", "i", "l", "e", "d">> @@
  "Upstream timeout" :>
     <<"U", "p", "s", "t", "r", "e", "a", "m", " ", "t", "i", "m", "e", "o", "u", "t">> @@
  "Invalid URL or parameters" :>
     <<"I", "n", "v", "a", "l", "i", "d", " ", "U", "R", "L", " ", "o", "r", " ", "p", "a", "r", "a", "m", "e", "t", "e", "r", "s">> @@
  "Video unavailable or restricted" :>
     <<"V", "i", "d", "e", "o", " ", "u", "n", "a", "v", "a", "i", "l", "a", "b", "l", "e", " ", "o", "r", " ", "r", "e", "s", "t", "r", "i", "c", "t", "e", "d">> @@
  "Failed to connect to Supadata API" :>
     <<"F", "a", "i", "l", "e", "d", " ", "t", "o", " ", "c", "o", "n", "n", "e", "c", "t", " ", "t", "o", " ", "S", "u", "p", "a", "d", "a", "t", "a", " ", "A", "P", "I">> @@
  "" :> <<>>

WhiteSpace == {" "}

\* /api[_-]?key[=:]\s*[^\s,}]+/gi has a match in message
HasApiKey(message) ==
  LET low == toLowerCase(message)
  IN  \E i \in 1..Len(low), sep \in {<<>>, <<"_">>, <<"-">>}, assign \in {"=", ":"} :
        LET head == <<"a", "p", "i">> \o sep \o <<"k", "e", "y">> \o <<assign>>
            rest == Drop(low, i - 1)
            value == Drop(rest, Len(head))
            k == IndexIn(value, {c \in {value[n] : n \in 1..Len(value)} : c \notin WhiteSpace}, 1)
        IN  /\ StartsWith(rest, head)
            /\ k <= Len(value)
            /\ value[k] \notin {",", "}"}

\* /https?:\/\/[^\s]+/g has a match in message
HasUrl(message) ==
  \E i \in 1..Len(message), scheme \in {<<"h", "t", "t", "p">>, <<"h", "t", "t", "p", "s">>} :
    LET head == scheme \o <<":", "/", "/">>
        rest == Drop(message, i - 1)
    IN  /\ StartsWith(rest, head)
        /\ Len(rest) > Len(head)
        /\ rest[Len(head) + 1] \notin WhiteSpace

\* what the transcript provider answers to a request that fails: the HTTP
\* status (0: fetch itself throws) and the error and code of the JSON body
\* ("" when absent)
SupadataFailures ==
  [status : {0, 400, 403, 401, 500},
   error : {"", "Invalid api_key=sk-123",
            "Request to https://api.supadata.ai/v1/transcript?key=1 failed", "Upstream timeout"},
   code : {"", "UNAUTHORIZED", "INTERNAL_ERROR"}]

\* the SupadataError that getTranscript throws for a failed request
SupadataErrorOf(response) ==
  IF response.status = 0
    THEN [message |-> "Failed to connect to Supadata API", code |-> "NETWORK_ERROR"]
  ELSE IF response.status = 400
    THEN [message |-> "Invalid URL or parameters", code |-> "INVALID_REQUEST"]
  ELSE IF response.status \in {403, 404}
    THEN [message |-> "Video unavailable or restricted", code |-> "VIDEO_UNAVAILABLE"]
  ELSE [message |-> IF response.error # "" THEN response.error
                    ELSE "Unknown error from Supadata",
        code |-> IF response.code # "" THEN response.code ELSE "UNKNOWN_ERROR"]

NoJobError == [code |-> "none", message |-> "", provider |-> "none"]

InitMsg ==
  /\ HandlersAtRest
  /\ call \in [fn : {"errorMessage"}, pc : {"fetch"}, response : SupadataFailures,
               thrown : {[message |-> "", code |-> "none"]}, jobError : {NoJobError},
               answer : {[http |-> 0, status |-> "none", error |-> NoJobError]}]

\* getTranscript throws for the response it got
ThrowSupadataError ==
  /\ call.fn = "errorMessage" /\ call.pc = "fetch"
  /\ call' = [call EXCEPT !.pc = "thrown", !.thrown = SupadataErrorOf(call.response)]
  /\ UNCHANGED handlerVars

\* the catch of processJob stores the error in the job
CatchSupadataError ==
  /\ call.fn = "errorMessage" /\ call.pc = "thrown"
  /\ call' = [call EXCEPT !.pc = "failed",
                !.jobError = [code |-> mapSupadataError(call.thrown.code),
                              message |-> call.thrown.message, provider |-> "supadata"]]
  /\ UNCHANGED handlerVars

\* GET answers with the failed job
AnswerFailedJob ==
  /\ call.fn = "errorMessage" /\ call.pc = "failed"
  /\ call' = [call EXCEPT !.pc = "answered",
                !.answer = [http |-> 500, status |-> "failed", error |-> call.jobError]]
  /\ UNCHANGED handlerVars

NextMsg == ThrowSupadataError \/ CatchSupadataError \/ AnswerFailedJob

SpecMsg == InitMsg /\ [][NextMsg]_vars

\* C27: the error message of a failed job that GET returns to the client
\* holds no api-key assignment and no absolute URL, whatever the transcript
\* provider wrote in its error
C27_MessageSanitized ==
  call.fn = "errorMessage" /\ call.pc = "answered" =>
    /\ ~HasApiKey(MessageChars[call.answer.error.message])
    /\ ~HasUrl(MessageChars[call.answer.error.message])

(* --------------------------- expiry of the keys ------------------------ *)

\* config.ttl.job and config.ttl.cache, in seconds, when the environment
\* sets neither
ttlJob == 7200
ttlCache == 604800

\* how many times the clock is moved on
MaxTicks == 3

\* the seconds that pass between two operations
Ticks == {3600, ttlJob, ttlCache}

\* nothing under the key
NoKey == [present |-> FALSE, writtenAt |-> 0, ex |-> 0]

NoRead == [of |-> "none", found |-> FALSE, age |-> 0]

InitTtl ==
  /\ scope \in {sc \in Scopes : sc.reqs = 1}
  /\ StoresInit
  /\ call = [fn |-> "store", now |-> 0, ticks |-> 0, job |-> NoKey, entry |-> NoKey,
             read |-> NoRead]

\* set(key, value, {ex}) of the remote store, ex = 0 for a write without
\* expiry; Map.set of the in-memory store
Written(now, ex) == [present |-> TRUE, writtenAt |-> now, ex |-> ex]

\* the key is still there at now: the remote store drops a key ex seconds
\* after the write that set it, a Map drops nothing
Readable(key, now) ==
  key.present /\ (key.ex = 0 \/ now < key.writtenAt + key.ex)

\* saveJob(job), also as the last statement of updateJob
StoreSaveJob ==
  /\ call.fn = "store"
  /\ call' = [call EXCEPT !.job = IF backend = "local" THEN Written(call.now, 0)
                                  ELSE Written(call.now, ttlJob),
                          !.read = NoRead]
  /\ UNCHANGED handlerVars

\* saveToCache(url, options, entry)
StoreSaveToCache ==
  /\ call.fn = "store"
  /\ call' = [call EXCEPT !.entry = IF backend = "local" THEN Written(call.now, 0)
                                    ELSE Written(call.now, ttlCache),
                          !.read = NoRead]
  /\ UNCHANGED handlerVars

\* getJob(jobId)
StoreGetJob ==
  /\ call.fn = "store"
  /\ call' = [call EXCEPT !.read = [of |-> "job", found |-> Readable(call.job, call.now),
                                    age |-> call.now - call.job.writtenAt]]
  /\ UNCHANGED handlerVars

\* getFromCache(url, options)
StoreGetFromCache ==
  /\ call.fn = "store"
  /\ call' = [call EXCEPT !.read = [of |-> "cache", found |-> Readable(call.entry, call.now),
                                    age |-> call.now - call.entry.writtenAt]]
  /\ UNCHANGED handlerVars

\* time passes
TimePasses ==
  /\ call.fn = "store" /\ call.ticks < MaxTicks
  /\ \E seconds \in Ticks :
       call' = [call EXCEPT !.now = @ + seconds, !.ticks = @ + 1, !.read = NoRead]
  /\ UNCHANGED handlerVars

NextTtl == StoreSaveJob \/ StoreSaveToCache \/ StoreGetJob \/ StoreGetFromCache \/ TimePasses

SpecTtl == InitTtl /\ [][NextTtl]_vars

\* C28: with either backend, every job record in the store was written with
\* the expiry ttlJob and every cache entry with ttlCache, so that getJob
\* finds no record that was last written ttlJob seconds ago or earlier, and
\* getFromCache no entry written ttlCache seconds ago or earlier
C28_KeysExpire ==
  call.fn = "store" =>
    /\ call.job.present => call.job.ex = ttlJob
    /\ call.entry.present => call.entry.ex = ttlCache
    /\ call.read.of = "job" /\ call.read.found => call.read.age < ttlJob
    /\ call.read.of = "cache" /\ call.read.found => call.read.age < ttlCache

(* ----------------------- the polls of stage transcript ----------------- *)

\* handler r is at work on a poll whose processJob loaded the job as
\* processing in stage transcript
TranscriptPoll(r) ==
  req[r].op = "GET" /\ ~Free(r) /\ req[r].job.status = "processing" /\ req[r].job.stage = "transcript"

\* the step is the write of handler r's updateJob after getTranscript gave a handle
AsyncWrite(r) ==
  /\ req'[r] # req[r] /\ req'[r].pc = "pj_final" /\ req[r].pc # "pj_final"
  /\ req'[r].calls = <<[fn |-> "getTranscript", answer |-> "jobId"]>>

\* C29: a poll that loaded its job in stage transcript has made no provider
\* call before processTranscriptStage's await and exactly one after it,
\* getTranscript when the loaded record holds no handle and getTranscriptJob
\* when it holds one; the write after getTranscript gave a handle leaves the
\* stored record with a handle and in stage transcript; and a poll that
\* began when a handle had been written for its job never calls getTranscript
C29_OneProviderCall ==
  [][\A r \in Reqs :
       /\ TranscriptPoll(r)' =>
            LET slot == req'[r]
                fn == IF slot.job.supadata.jobId = "none" THEN "getTranscript"
                      ELSE "getTranscriptJob"
            IN  /\ slot.pc = "ts_call" => slot.calls = <<>>
                /\ slot.pc # "ts_call" => Len(slot.calls) = 1 /\ slot.calls[1].fn = fn
                /\ slot.afterHandle => \A k \in 1..Len(slot.calls) : slot.calls[k].fn # "getTranscript"
       /\ AsyncWrite(r) =>
            /\ jobs'[req[r].jobId].supadata.jobId \in Handles
            /\ jobs'[req[r].jobId].stage = "transcript"
            /\ req[r].jobId \in handlePersisted'
    ]_vars

\* the poll in this slot has called getTranscriptJob, which answered queued
\* or active
StillPending(slot) ==
  /\ slot.op = "GET" /\ slot.pc # "done"
  /\ Len(slot.calls) = 1
  /\ slot.calls[1].fn = "getTranscriptJob" /\ slot.calls[1].answer \in {"queued", "active"}

C31_HandleOnlyWhilePending ==
  \A j \in JobIds :
    jobs[j].status # "absent" /\ jobs[j].supadata.jobId # "none" =>
      jobs[j].status = "processing" /\ jobs[j].stage = "transcript"

\* C32: the error of every stored job record has a code of the documented
\* taxonomy, whichever provider or step of the driver raised it
C32_ErrorCodeInTaxonomy ==
  \A j \in JobIds :
    jobs[j].status # "absent" /\ jobs[j].error # NoError =>
      jobs[j].error.code \in
        {"VIDEO_UNAVAILABLE", "TRANSCRIPT_UNAVAILABLE", "SUPADATA_INVALID_REQUEST",
         "SUPADATA_UPSTREAM_ERROR", "GEMINI_AUTH", "GEMINI_QUOTA",
         "GEMINI_UPSTREAM_ERROR", "GEMINI_INVALID_RESPONSE", "INTERNAL_ERROR"}

\* the cache key processSummarizeStage writes for a job:
\* generateCacheKey(job.input.url, job.input.options || {})
OwnCacheKey(job) ==
  CacheKey(job.input.url,
           IF job.input.options.present THEN job.input.options ELSE Obj(<<>>))

\* C33: a step of a GET or DELETE handler on job J leaves the record of
\* every other job as it is and changes no cache entry but the one under
\* the key of J's own url and options
C33_OtherJobsUntouched ==
  [][\A r \in Reqs :
       req'[r] # req[r] /\ req'[r].op \in {"GET", "DELETE"} =>
         LET J == req'[r].jobId
         IN  /\ \A j \in JobIds \ {J} : jobs'[j] = jobs[j]
             /\ \/ cache' = cache
                \/ /\ jobs[J].status # "absent"
                   /\ \A k \in DOMAIN cache' \ {OwnCacheKey(jobs[J])} :
                        k \in DOMAIN cache /\ cache'[k] = cache[k]
                   /\ DOMAIN cache \subseteq DOMAIN cache'
    ]_vars

\* a job that was created after another job had failed has been polled to
\* completion while the other job is still on record as failed
C33_Witness ==
  \E J \in JobIds, K \in JobIds :
    /\ J \in failedBefore[K] /\ jobs[J].status = "failed"
    /\ jobs[K].status = "completed"
    /\ \E r \in Reqs : Answered(r, "GET") /\ req[r].jobId = K /\ req[r].resp.http = 200

(* ------------------- createdAt and updatedAt of a record ---------------- *)

\* no record under the job's key
NoStamped == [status |-> "absent", stage |-> "none", createdAt |-> 0, updatedAt |-> 0]

\* one job, one request at a time, and the clock new Date() reads
InitTime ==
  /\ scope \in {sc \in Scopes : sc.reqs = 1}
  /\ StoresInit
  /\ call = [fn |-> "time", now |-> 0, ticks |-> 0, pc |-> "idle",
             stored |-> NoStamped, job |-> NoStamped]

\* updateJob: {...job, ...updates, updatedAt: new Date().toISOString()}
\* over the record in the store
TimedUpdate(stored, field, value, now) ==
  [[stored EXCEPT ![field] = value] EXCEPT !.updatedAt = now]

\* createJob: createdAt and updatedAt are the time of the call
TimedCreateJob ==
  /\ call.fn = "time" /\ call.pc = "idle" /\ call.stored.status = "absent"
  /\ call' = [call EXCEPT !.stored = [status |-> "processing", stage |-> "transcript",
                                      createdAt |-> call.now, updatedAt |-> call.now]]
  /\ UNCHANGED handlerVars

\* processJob: const job = await getJob(jobId), and the stage it enters
TimedProcessJob ==
  /\ call.fn = "time" /\ call.pc = "idle" /\ call.stored.status = "processing"
  /\ call' = [call EXCEPT !.job = call.stored,
                          !.pc = IF call.stored.stage = "transcript" THEN "ts_call"
                                 ELSE "ss_call"]
  /\ UNCHANGED handlerVars

\* processTranscriptStage: the remote job is queued or active (no write), or
\* getTranscript gave a jobId: updateJob(job.id, {supadata})
TimedPending ==
  /\ call.fn = "time" /\ call.pc = "ts_call"
  /\ \/ call' = [call EXCEPT !.pc = "idle"]
     \/ call' = [call EXCEPT !.pc = "idle",
                             !.stored = TimedUpdate(call.stored, "stage", call.stored.stage,
                                                    call.now)]
  /\ UNCHANGED handlerVars

\* processTranscriptStage: the transcript is in hand:
\* updateJob(job.id, {stage: 'summarize', supadata})
TimedReady ==
  /\ call.fn = "time" /\ call.pc = "ts_call"
  /\ call' = [call EXCEPT !.pc = "ts_save",
                          !.stored = TimedUpdate(call.stored, "stage", "summarize", call.now)]
  /\ UNCHANGED handlerVars

\* processTranscriptStage: saveJob({...job, stage: 'summarize', supadata,
\* _transcript}), job being the record processJob loaded
TimedTranscriptSave ==
  /\ call.fn = "time" /\ call.pc = "ts_save"
  /\ call' = [call EXCEPT !.pc = "idle", !.stored = [call.job EXCEPT !.stage = "summarize"]]
  /\ UNCHANGED handlerVars

\* processSummarizeStage: updateJob(job.id, {status: 'completed', result})
TimedSummarized ==
  /\ call.fn = "time" /\ call.pc = "ss_call"
  /\ call' = [call EXCEPT !.pc = "ss_save",
                          !.stored = TimedUpdate(call.stored, "status", "completed", call.now)]
  /\ UNCHANGED handlerVars

\* processSummarizeStage: saveJob({...job, status: 'completed', result})
TimedSummarizeSave ==
  /\ call.fn = "time" /\ call.pc = "ss_save"
  /\ call' = [call EXCEPT !.pc = "idle", !.stored = [call.job EXCEPT !.status = "completed"]]
  /\ UNCHANGED handlerVars

\* processJob's catch: updateJob(jobId, {status: 'failed', error})
TimedCatch ==
  /\ call.fn = "time" /\ call.pc \in {"ts_call", "ss_call"}
  /\ call' = [call EXCEPT !.pc = "idle",
                          !.stored = TimedUpdate(call.stored, "status", "failed", call.now)]
  /\ UNCHANGED handlerVars

\* cancelJob: updateJob(jobId, {status: 'cancelled'}) unless the job is
\* missing, completed or cancelled
TimedCancelJob ==
  /\ call.fn = "time" /\ call.pc = "idle"
  /\ call.stored.status \in {"processing", "failed"}
  /\ call' = [call EXCEPT !.stored = TimedUpdate(call.stored, "status", "cancelled", call.now)]
  /\ UNCHANGED handlerVars

\* a millisecond passes
ClockTick ==
  /\ call.fn = "time" /\ call.ticks < MaxTicks
  /\ call' = [call EXCEPT !.now = @ + 1, !.ticks = @ + 1]
  /\ UNCHANGED handlerVars

NextTime ==
  \/ TimedCreateJob \/ TimedProcessJob \/ TimedPending \/ TimedReady
  \/ TimedTranscriptSave \/ TimedSummarized \/ TimedSummarizeSave \/ TimedCatch
  \/ TimedCancelJob \/ ClockTick

SpecTime == InitTime /\ [][NextTime]_vars

\* C34: no write of a job record stores an updatedAt older than the one
\* stored before it, and none changes createdAt
C34_TimestampsMonotone ==
  [][call.fn = "time" /\ call.stored.status # "absent" =>
       /\ call'.stored.updatedAt >= call.stored.updatedAt
       /\ call'.stored.createdAt = call.stored.createdAt]_vars

(* --------------------------- concurrent updates ------------------------- *)

\* C35: the write of an updateJob call stores the fields of its updates and
\* leaves every other field as the store holds it at the time of the write,
\* with either backend, so that the fields another updateJob call has set
\* meanwhile stay in the record
C35_NoLostUpdate ==
  [][\A r \in Reqs :
       req[r].pc \in {"uj", "uj_w"} /\ req'[r] # req[r] /\ jobs' # jobs =>
         LET J == req[r].jobId
         IN  \A f \in DOMAIN jobs[J] :
               jobs'[J][f] = IF f \in req[r].upd.fields THEN req[r].upd.val[f]
                             ELSE jobs[J][f]
    ]_vars

\* C36: no GET is answered with the error code UNKNOWN_STATE: the job
\* processJob returns to the route is processing, completed or failed
C36_NeverUnknownState ==
  \A r \in Reqs :
    req[r].op = "GET" /\ req[r].pc = "done" => req[r].resp.code # "UNKNOWN_STATE"

\* C37: the last write of processSummarizeStage, the saveJob that follows
\* saveToCache, leaves the stored record completed and without the
\* temporary transcript field
C37_TranscriptRemoved ==
  [][\A r \in Reqs :
       req[r].pc = "ss_save" /\ req'[r].pc = "pj_final" =>
         /\ jobs'[req[r].jobId].status = "completed"
         /\ jobs'[req[r].jobId].transcript = "none"
    ]_vars

(* ---------------------- validation of the POST body --------------------- *)

\* config.title
titleMinLength == 1
titleMaxLength == 120

\* a title by what the schema looks at: whether the member is there, the
\* length of the string, whether it holds an HTML tag
Titles ==
  {[present |-> FALSE, length |-> 0, html |-> FALSE]} \cup
  [present : {TRUE}, length : {0, titleMinLength, titleMaxLength, titleMaxLength + 1},
   html : {FALSE}] \cup
  [present : {TRUE}, length : {titleMaxLength, titleMaxLength + 1}, html : {TRUE}]

\* lang as clients write it ("absent": the member is left out)
BodyLangs == {"absent", "auto", "en", "ru", "de"}

\* the enums of the options object
OptionEnum ==
  [k \in OptionKeys |->
     CASE k = "length" -> {"short", "standard", "detailed"}
       [] k = "format" -> {"bullets", "paragraph"}
       [] OTHER -> {"native", "auto", "generate"}]

\* options as clients write them, among them the object the browser UI
\* sends and one with a value outside its enum
PostOptions ==
  BodyOptions \cup
  { Obj(<< <<"length", "standard">>, <<"format", "bullets">> >>),
    Obj(<< <<"length", "long">> >>) }

\* url as clients write it
PostUrls ==
  {u \in UrlParts : /\ u.scheme \in {"https", ""}
                    /\ u.host \in {"www.youtube.com", "youtu.be", "example.com", ""}
                    /\ u.path \in {"/watch?v=", "/", ""}
                    /\ u.id \in {"dQw4w9WgXcQ", "not-a-url"}}

PostBodies == [title : Titles, url : PostUrls, lang : BodyLangs, options : PostOptions]

validateTitle(title) ==
  IF title.length < titleMinLength \/ title.length > titleMaxLength THEN FALSE
  ELSE IF title.html THEN FALSE
  ELSE TRUE

\* createSummarySchema.safeParse(data).success
validateCreateSummaryRequest(data) ==
  /\ \/ ~data.title.present
     \/ /\ data.title.length >= titleMinLength
        /\ data.title.length <= titleMaxLength
        /\ validateTitle(data.title)
  /\ ParseURL(UrlText(data.url)).ok
  /\ validateYouTubeUrl(UrlText(data.url))
  /\ data.lang \in {"absent", "auto", "en", "ru"}
  /\ \/ ~data.options.present
     \/ \A i \in 1..Len(data.options.kv) :
          /\ data.options.kv[i][1] \in OptionKeys
          /\ data.options.kv[i][2] \in OptionEnum[data.options.kv[i][1]]

InitBody ==
  /\ HandlersAtRest
  /\ call \in [fn : {"POST"}, pc : {"args"}, body : PostBodies, http : {0}, code : {"none"}]

\* POST: validateCreateSummaryRequest(body); 400 INVALID_REQUEST when it
\* fails, else the handler goes on to checkCache and createJob
PostValidate ==
  /\ call.fn = "POST" /\ call.pc = "args"
  /\ IF validateCreateSummaryRequest(call.body)
       THEN call' = [call EXCEPT !.pc = "validated"]
       ELSE call' = [call EXCEPT !.pc = "returned", !.http = 400, !.code = "INVALID_REQUEST"]
  /\ UNCHANGED handlerVars

\* POST: a validated request is answered from the cache or with a new job
PostAccepted ==
  /\ call.fn = "POST" /\ call.pc = "validated"
  /\ \E http \in {200, 202} : call' = [call EXCEPT !.pc = "returned", !.http = http]
  /\ UNCHANGED handlerVars

NextBody == PostValidate \/ PostAccepted

SpecBody == InitBody /\ [][NextBody]_vars

\* the body processVideo sends for the url it was given
UiBody(body) ==
  /\ body.title = [present |-> TRUE, length |-> 0, html |-> FALSE]
  /\ body.lang = "ru"
  /\ body.options = Obj(<< <<"length", "standard">>, <<"format", "bullets">> >>)

\* C38: the body the browser UI sends for a valid YouTube URL passes the
\* validation of POST: the answer is 202 or 200 and never 400 INVALID_REQUEST
C38_UiRequestAccepted ==
  /\ call.fn = "POST" /\ call.pc = "returned"
  /\ UiBody(call.body) /\ validateYouTubeUrl(UrlText(call.body.url))
  => call.http \in {200, 202}

============================================================================
